---- MODULE Spec2Model ----
(***************************************************************************)
(* ts-decohere: the synthesis orchestrator (tooling/decohere-build.ts),    *)
(* the candidate ranker (tooling/lib/candidate-selector.ts) and the audit  *)
(* log (tooling/lib/audit.ts), as one state machine.                       *)
(*                                                                         *)
(* One Decohere<T>() call of processFile is followed from the cache miss   *)
(* through synthesizeValue's attempt loop to the delivery of the value or  *)
(* to the rejection caught by main().  The oracle (callLLM) is the only    *)
(* source of nondeterminism.                                               *)
(*                                                                         *)
(* Scores are kept as exact integers: complexity, coverage and reusability *)
(* in thousandths, totalScore in ten-thousandths (weights 3/4/3 tenths).   *)
(***************************************************************************)
EXTENDS Integers, Sequences, FiniteSets, TLC

(* ------------------------------- bounds -------------------------------- *)

\* config.maxLLMAttempts of decohere.config.json (defaultMaxAttempts is 5)
maxLLMAttempts == 3

(* --------------------------- the value domain -------------------------- *)

\* JSON values the oracle may propose: odd and below the threshold, odd and
\* above it, even and above it.
Values == {7, 101, 102}

\* Bundle identities (normalized type texts): the bundle that is synthesized
\* and another key of the audit log.
MysteryBundle == "MysteryType & GreaterThanX<100> & Even"
TypeTexts == {MysteryBundle, "Even"}

INFEASIBLE == "__INFEASIBLE__"

(* -------------------------- predicate sources -------------------------- *)

SrcGreater100 == "(value) => typeof value === \"number\" && Number.isFinite(value) && value > 100"
SrcEven == "(value) => typeof value === \"number\" && Number.isInteger(value) && value % 2 === 0"
SrcDefault == "(value) => Boolean(value)"
SrcOdd == "(value) => value % 2 === 1"
SrcShort == "(value) => value > 100"
SrcBroken == "(value) => value >"
\* abbreviates the 622 character source "(value) => value !== 1 && value !== 2
\* && ... && value !== 39"
SrcLong == "(value) => value !== 1 && ... && value !== 39"
\* sources that are no arrow function: two single-line patterns, an
\* expression over value, and text that is no JavaScript
SrcSingleGreater == "x > 100"
SrcSingleEven == "x % 2 === 0"
SrcExpression == "typeof value === 'number' && value > 0"
SrcInvalid == "this is not valid code"

\* .length of each source text
SourceLength(src) ==
  CASE src = SrcGreater100 -> 77
    [] src = SrcEven -> 82
    [] src = SrcDefault -> 25
    [] src = SrcOdd -> 26
    [] src = SrcShort -> 22
    [] src = SrcBroken -> 18
    [] src = SrcLong -> 622
    [] src = SrcSingleGreater -> 7
    [] src = SrcSingleEven -> 11
    [] src = SrcExpression -> 38
    [] src = SrcInvalid -> 22

\* new vm.Script(`(${source})`) parses and evaluates to a function
Compiles(src) == src # SrcBroken

\* !!fn(value) of the compiled source
Accepts(src, value) ==
  CASE src = SrcGreater100 -> value > 100
    [] src = SrcEven -> value % 2 = 0
    [] src = SrcDefault -> value # 0
    [] src = SrcOdd -> value % 2 = 1
    [] src = SrcShort -> value > 100
    [] src = SrcLong -> value \notin 1..39
    [] OTHER -> FALSE

(* ------------------------------ constraints ---------------------------- *)

\* raw.replace(/[^A-Za-z0-9_]/g, "_"), a leading digit prefixed, "" -> "constraint"
sanitizeIdentifier(raw) ==
  CASE raw = "h-1" -> "h_1"
    [] raw = "" -> "constraint"
    [] OTHER -> raw

Constraint(name, description, predicateSource, source) ==
  [name |-> name, description |-> description,
   predicateSource |-> predicateSource, source |-> source]

\* constraint.test(value)
Test(constraint, value) == Accepts(constraint.predicateSource, value)

greaterThan_100 ==
  Constraint("greaterThan_100", "Value must be a number strictly greater than 100",
             SrcGreater100, "inferred")

isEvenNumber ==
  Constraint("isEvenNumber", "Value must be even", SrcEven, "inferred")

\* collectConstraints(typeText, ...) of the two bundles
collectConstraints(tt) ==
  IF tt = "Even" THEN <<isEvenNumber>> ELSE <<greaterThan_100, isEvenNumber>>

\* Map.set(c.name, c): an existing key keeps its position, a new key goes last
MapSet(m, c) ==
  IF \E i \in DOMAIN m : m[i].name = c.name
  THEN [i \in DOMAIN m |-> IF m[i].name = c.name THEN c ELSE m[i]]
  ELSE Append(m, c)

RECURSIVE MapSetAll(_, _)
MapSetAll(m, s) ==
  IF s = <<>> THEN m ELSE MapSetAll(MapSet(m, Head(s)), Tail(s))

\* mergeConstraintSets with the existing constraints set after the additions
mergeConstraintSetsExistingLast(existing, additions) ==
  MapSetAll(MapSetAll(<<>>, additions), existing)

mergeConstraintSets(existing, additions) ==
  MapSetAll(MapSetAll(<<>>, existing), additions)

mergeHeuristicDefs(existing, additions) ==
  MapSetAll(MapSetAll(<<>>, existing), additions)

\* the descriptions of the constraints whose test the value fails, in order
RECURSIVE FailedDescriptions(_, _)
FailedDescriptions(constraints, value) ==
  IF constraints = <<>> THEN <<>>
  ELSE IF ~Test(Head(constraints), value)
       THEN <<Head(constraints).description>> \o FailedDescriptions(Tail(constraints), value)
       ELSE FailedDescriptions(Tail(constraints), value)

\* validateValue stopping after the first constraint of the list
validateValueHeadOnly(constraints, value) ==
  LET errors == FailedDescriptions(SubSeq(constraints, 1, 1), value)
  IN  [ok |-> errors = <<>>, errors |-> errors]

\* validateValue reporting the first failure only
validateValueFirstFailure(constraints, value) ==
  LET errors == FailedDescriptions(constraints, value)
  IN  [ok |-> errors = <<>>, errors |-> SubSeq(errors, 1, 1)]

validateValue(constraints, value) ==
  LET errors == FailedDescriptions(constraints, value)
  IN  [ok |-> errors = <<>>, errors |-> errors]

\* def.name || "heuristic", def.predicate || default, def.description || default
HeuristicName(def) == sanitizeIdentifier(IF def.name = "" THEN "heuristic" ELSE def.name)
HeuristicSource(def) == IF def.predicate = "" THEN SrcDefault ELSE def.predicate
HeuristicDescription(def) ==
  IF def.description = "" THEN "Heuristic predicate" ELSE def.description

\* compilePredicate throws for one of the definitions
compileHeuristicsThrows(definitions) ==
  \E i \in DOMAIN definitions : ~Compiles(HeuristicSource(definitions[i]))

compileHeuristics(definitions) ==
  [constraints |->
     [i \in DOMAIN definitions |->
        Constraint(HeuristicName(definitions[i]), HeuristicDescription(definitions[i]),
                   HeuristicSource(definitions[i]), "heuristic")],
   normalized |->
     [i \in DOMAIN definitions |->
        [name |-> HeuristicName(definitions[i]),
         description |-> HeuristicDescription(definitions[i]),
         predicate |-> HeuristicSource(definitions[i])]]]

(* ------------------------- candidate scoring --------------------------- *)

\* calculateComplexityScore, in thousandths: (length - 50) / 450 * 0.9 is
\* 0.002 per character
calculateComplexityScore(predicateSource) ==
  LET length == SourceLength(predicateSource)
  IN  IF length < 50 THEN 1000
      ELSE IF length > 500 THEN 100
      ELSE 1000 - (length - 50) * 2

\* compileSingleLinePredicate(source) of the library returns a function
SingleLinePattern(src) == src \in {SrcSingleGreater, SrcSingleEven}

\* new Function("value", `return ${source}`) parses
ParsesAsFunctionBody(src) == src \notin {SrcBroken, SrcInvalid}

\* Boolean(fn(value)) of that function: an arrow function source returns
\* the arrow function itself, which is truthy
BodyIsTruthy(src, value) ==
  IF src = SrcExpression THEN value > 0 ELSE TRUE

\* compilePredicate(source)(value) of the library: the single-line pattern,
\* else the Function constructor, else () => false; it never throws
compilePredicateLib(src, value) ==
  IF SingleLinePattern(src)
  THEN IF src = SrcSingleGreater THEN value > 100 ELSE value % 2 = 0
  ELSE IF ParsesAsFunctionBody(src) THEN BodyIsTruthy(src, value)
  ELSE FALSE

\* matchedCount and passedCount of calculateCoverageScore over the test values
MatchedCount(predicateSource, constraints, testValues) ==
  Cardinality({<<v, i>> \in testValues \X DOMAIN constraints :
                 Test(constraints[i], v) /\ compilePredicateLib(predicateSource, v)})

PassedCount(predicateSource, testValues) ==
  Cardinality({v \in testValues : compilePredicateLib(predicateSource, v)})

\* calculateCoverageScore, in thousandths; testValues is a set of distinct
\* values. The catch branch (0.1) is taken when compilePredicate or a
\* constraint's test throws, which none of them does here
calculateCoverageScore(predicateSource, constraints, testValues) ==
  IF Len(constraints) = 0 \/ testValues = {} THEN 500
  ELSE LET matched == MatchedCount(predicateSource, constraints, testValues)
           passed == PassedCount(predicateSource, testValues)
           maxScore == Len(constraints) * Cardinality(testValues)
       IN  IF matched > 0
           THEN IF (matched + passed) * 2 >= maxScore * 3
                THEN 1000
                ELSE ((matched + passed) * 2000) \div (maxScore * 3)
           ELSE 200

\* calculateReusabilityScore, in thousandths: the regular expressions of the
\* function applied to each source text
calculateReusabilityScore(predicateSource) ==
  CASE predicateSource = SrcSingleGreater -> 900
    [] predicateSource = SrcExpression -> 850
    [] predicateSource = SrcSingleEven -> 800
    [] predicateSource \in {SrcGreater100, SrcEven, SrcShort, SrcBroken} -> 700
    [] OTHER -> 500

\* scoreCandidate with the default weights 0.3 / 0.4 / 0.3; totalScore in
\* ten-thousandths
scoreCandidate(candidate, constraints, testValues) ==
  LET complexityScore == calculateComplexityScore(candidate.predicate)
      coverageScore == calculateCoverageScore(candidate.predicate, constraints, testValues)
      reusabilityScore == calculateReusabilityScore(candidate.predicate)
  IN  [candidate |-> candidate,
       complexityScore |-> complexityScore,
       coverageScore |-> coverageScore,
       reusabilityScore |-> reusabilityScore,
       totalScore |-> complexityScore * 3 + coverageScore * 4 + reusabilityScore * 3]

\* one step of the stable descending sort: s goes after every score >= its own
InsertRanked(sorted, s) ==
  LET before == {i \in DOMAIN sorted : sorted[i].totalScore >= s.totalScore}
      k == Cardinality(before)
  IN  SubSeq(sorted, 1, k) \o <<s>> \o SubSeq(sorted, k + 1, Len(sorted))

RECURSIVE SortRanked(_, _)
SortRanked(sorted, rest) ==
  IF rest = <<>> THEN sorted ELSE SortRanked(InsertRanked(sorted, Head(rest)), Tail(rest))

\* rankCandidates sorting the later of two equal scores first
rankCandidatesTiesReversed(candidates, constraints, testValues) ==
  SortRanked(<<>>, [i \in DOMAIN candidates |->
                      scoreCandidate(candidates[Len(candidates) + 1 - i], constraints,
                                     testValues)])

\* scored.sort((a, b) => b.totalScore - a.totalScore)
rankCandidates(candidates, constraints, testValues) ==
  SortRanked(<<>>, [i \in DOMAIN candidates |->
                      scoreCandidate(candidates[i], constraints, testValues)])

\* selectBestCandidate keeping the top entry among the alternatives
selectBestCandidateKeepingTop(candidates, constraints, testValues) ==
  LET ranked == rankCandidates(candidates, constraints, testValues)
  IN  IF Len(ranked) = 0
      THEN [threw |-> "No candidates to select from"]
      ELSE [candidate |-> ranked[1], alternatives |-> ranked]

\* selectBestCandidate: the top of the ranking and the rest, or an Error
selectBestCandidate(candidates, constraints, testValues) ==
  LET ranked == rankCandidates(candidates, constraints, testValues)
  IN  IF Len(ranked) = 0
      THEN [threw |-> "No candidates to select from"]
      ELSE [candidate |-> ranked[1], alternatives |-> Tail(ranked)]

\* score.totalScore >= threshold, threshold in ten-thousandths
isConfidentCandidate(score, threshold) == score.totalScore >= threshold

(* -------------------------- predicate registry ------------------------- *)

\* createHash("sha256").update(text).digest("hex"): one id per source text
hashText(text) == "sha256(" \o text \o ")"

RegistryEntry(name, description, predicateSource) ==
  [id |-> hashText(predicateSource), name |-> name, description |-> description,
   predicateSource |-> predicateSource]

\* the registry after the built-in seeds were added to an empty registry file
builtInPredicateSeeds ==
  {RegistryEntry("isStringValue", "Value must be a string",
                 "(value) => typeof value === \"string\""),
   RegistryEntry("isNumberValue", "Value must be a finite number",
                 "(value) => typeof value === \"number\" && Number.isFinite(value)")}

\* registerConstraintPredicate: insert when the id is absent, replace the
\* entry when a field differs
registerConstraintPredicate(reg, constraint) ==
  IF constraint.predicateSource = "" THEN reg
  ELSE {e \in reg : e.id # hashText(constraint.predicateSource)}
         \cup {RegistryEntry(constraint.name, constraint.description,
                             constraint.predicateSource)}

RECURSIVE RegisterAll(_, _)
RegisterAll(reg, constraints) ==
  IF constraints = <<>> THEN reg
  ELSE RegisterAll(registerConstraintPredicate(reg, Head(constraints)), Tail(constraints))

\* the constraints compileHeuristics registers before it returns or throws:
\* those ahead of the first definition that does not compile
RECURSIVE CompiledPrefix(_)
CompiledPrefix(constraints) ==
  IF constraints = <<>> THEN <<>>
  ELSE IF ~Compiles(Head(constraints).predicateSource) THEN <<>>
  ELSE <<Head(constraints)>> \o CompiledPrefix(Tail(constraints))

(* ------------------------------ cache files ---------------------------- *)

\* computeTypeFingerprint(typeText, dependencies): a hash of the type text
\* and of the declarations it depends on
computeTypeFingerprint(tt, dependencies) == hashText(tt \o ":" \o dependencies)

CacheEntry(tt, fingerprint, value, heuristics) ==
  [typeText |-> tt, fingerprint |-> fingerprint, value |-> value,
   attempts |-> <<>>, heuristics |-> heuristics, candidateSelectionAudit |-> <<>>]

\* a cache file whose text JSON.parse rejects
Unreadable == CacheEntry("{ not JSON", "", 0, <<>>)

\* loadCacheEntry: nothing for an absent file and for an unreadable one
loadCacheEntry(file) == IF file = <<>> \/ file = <<Unreadable>> THEN <<>> ELSE file

\* materializeFromCache accepting an entry whatever its fingerprint
materializeFromCacheAnyFingerprint(file, fingerprint, baseConstraints) ==
  LET cached == loadCacheEntry(file)
  IN  IF cached = <<>> THEN <<>>
      ELSE IF compileHeuristicsThrows(cached[1].heuristics) THEN <<>>
      ELSE LET heuristicConstraints == compileHeuristics(cached[1].heuristics).constraints
           IN  IF ~validateValue(baseConstraints \o heuristicConstraints,
                                 cached[1].value).ok
               THEN <<>>
               ELSE <<[entry |-> cached[1],
                       heuristics |-> cached[1].heuristics,
                       heuristicConstraints |-> heuristicConstraints]>>

\* [...baseConstraints, ...heuristicConstraints] validated against the cached
\* value; <<>> stands for undefined
materializeFromCache(file, fingerprint, baseConstraints) ==
  LET cached == loadCacheEntry(file)
  IN  IF cached = <<>> THEN <<>>
      ELSE IF cached[1].fingerprint # fingerprint THEN <<>>
      ELSE IF compileHeuristicsThrows(cached[1].heuristics) THEN <<>>
      ELSE LET heuristicConstraints == compileHeuristics(cached[1].heuristics).constraints
           IN  IF ~validateValue(baseConstraints \o heuristicConstraints,
                                 cached[1].value).ok
               THEN <<>>
               ELSE <<[entry |-> cached[1],
                       heuristics |-> cached[1].heuristics,
                       heuristicConstraints |-> heuristicConstraints]>>

\* the heuristic constraints materializeFromCache registers on its way:
\* none unless the entry loads with the current fingerprint
CachedHeuristicsCompiled(file, fingerprint) ==
  LET cached == loadCacheEntry(file)
  IN  IF cached = <<>> THEN <<>>
      ELSE IF cached[1].fingerprint # fingerprint THEN <<>>
      ELSE CompiledPrefix(compileHeuristics(cached[1].heuristics).constraints)

\* the components of the bundle that carry example sets (the alias MysteryType
\* is InferFromMeasurments<[1, 2, 3, 5, 8, 13]>)
ComponentContexts(tt) == IF tt = MysteryBundle THEN {"MysteryType"} ELSE {}

(* ------------------------------ the oracle ----------------------------- *)

\* heuristics[] entries {name, description, predicate} of oracle responses:
\* one that takes the name of a derived constraint and leaves description
\* and predicate out, one that rejects even values, one whose predicate
\* does not compile
hOverride == [name |-> "isEvenNumber", description |-> "", predicate |-> ""]
hOdd == [name |-> "h-1", description |-> "", predicate |-> SrcOdd]
hBroken == [name |-> "h-1", description |-> "Value must be odd", predicate |-> SrcBroken]

HeuristicLists == {<<>>, <<hOverride>>, <<hOdd>>, <<hBroken>>, <<hOdd, hOverride>>}

\* candidateValidators[] entries of oracle responses
cLong == [name |-> "", description |-> "", predicate |-> SrcLong]
cShort == [name |-> "", description |-> "", predicate |-> SrcShort]

CandidateLists == {<<>>, <<cLong>>, <<cLong, cShort>>}

\* JSON.parse(content) as LLMResponse
LLMResponses ==
  [value : Values,
   heuristics : HeuristicLists,
   candidateValidators : CandidateLists,
   explanation : {INFEASIBLE, "ok"}]

(* -------------------------------- state -------------------------------- *)

VARIABLES
  typeText,                 \* the bundle identity of the Decohere<T>() call
  openai,                   \* an OpenAI client is configured (OPENAI_API_KEY set)
  pc,                       \* where processFile / synthesizeValue / main stand
  attempt,                  \* the loop counter of synthesizeValue
  feedback,                 \* synthesizeValue: let feedback
  accumulatedConstraints,   \* synthesizeValue: let accumulatedConstraints
  accumulatedHeuristics,    \* synthesizeValue: let accumulatedHeuristics
  attempts,                 \* synthesizeValue: const attempts
  request,                  \* the last request handed to callLLM, if any
  response,                 \* the response of the current attempt, if any
  candidateSelectionAudit,  \* the current attempt's selection audit, if any
  validation,               \* the current attempt's validateValue result, if any
  llmCalls,                 \* openai.responses.create calls issued so far
  entries,                  \* AuditLog.entries
  candidateAudits,          \* AuditLog.candidateAudits
  validationAudits,         \* AuditLog.validationAudits
  synthesized,              \* the MaterializeSuccess returned, if any
  cacheEntry,               \* the cache file of the bundle, if written
  inlined,                  \* the literal processFile put in place of the call
  error,                    \* the Error thrown, if any
  exitCode,                 \* process.exitCode
  predicateRegistry,        \* the predicate registry, entries keyed by id
  predicateRegistryDirty,   \* let predicateRegistryDirty
  predicateRegistryFile,    \* generated/predicates/registry.json
  augmentCalls,             \* openai.responses.create calls of augmentExampleSets
  predicateAudits,          \* AuditLog.predicateAudits
  clock,                    \* the time new Date() last returned
  cacheAudits,              \* the CacheAudit[] that auditCacheEntries returned
  confidenceThreshold,      \* CacheManager.confidenceThreshold
  warnings,                 \* logger.warn calls of the CacheManager
  managerResult,            \* what the CacheManager last returned, if anything
  regEntries,               \* Registry.entries, in insertion order
  regDirty,                 \* Registry.dirty
  regFile,                  \* the file at Registry.registryPath, if it exists
  regIndexFile,             \* the file at Registry.indexPath, if it exists
  regWrites,                \* writeFileSync calls on Registry.registryPath
  registration,             \* the last registration call and the id it returned
  invoked,                  \* the last call of a function followed on its own
  returned                  \* what that call returned or threw

vars ==
  <<typeText, openai, pc, attempt, feedback, accumulatedConstraints,
    accumulatedHeuristics, attempts, request, response, candidateSelectionAudit,
    validation, llmCalls, entries, candidateAudits, validationAudits,
    synthesized, cacheEntry, inlined, error, exitCode,
    predicateRegistry, predicateRegistryDirty, predicateRegistryFile,
    augmentCalls, predicateAudits, clock,
    cacheAudits, confidenceThreshold, warnings, managerResult,
    regEntries, regDirty, regFile, regIndexFile, regWrites, registration,
    invoked, returned>>

registry == <<predicateRegistry, predicateRegistryDirty, predicateRegistryFile>>
loopLocals == <<response, candidateSelectionAudit, validation>>
auditLog == <<entries, candidateAudits, validationAudits>>
outcome == <<synthesized, cacheEntry, inlined, error, exitCode>>
\* the state outside synthesizeValue's reach
discoveries == <<predicateAudits, clock>>
manager == <<cacheAudits, confidenceThreshold, warnings, managerResult>>
registryObject == <<regEntries, regDirty, regFile, regIndexFile, regWrites>>
functionCall == <<invoked, returned>>
\* no function has been called on its own
NoCall == invoked = <<>> /\ returned = <<>>
libraries == <<discoveries, manager, registryObject, registration, functionCall>>
others == <<augmentCalls, libraries>>
\* what processFile, synthesizeValue and main work on, the audit log apart
synthesis ==
  <<typeText, openai, pc, attempt, feedback, accumulatedConstraints,
    accumulatedHeuristics, attempts, request, response, candidateSelectionAudit,
    validation, llmCalls, synthesized, cacheEntry, inlined, error, exitCode,
    augmentCalls>>

\* predicate ids handed to the audit log
PredicateIds == {"pred_123", "pred_456"}

\* new AuditLog(): no predicate audits
NoPredicateAudits ==
  /\ predicateAudits = [id \in PredicateIds |-> <<>>]
  /\ clock = 0

\* private confidenceThreshold: number = 0.75, in ten-thousandths
DefaultConfidenceThreshold == 7500

\* new CacheManager(cacheDir, auditLog, logger), nothing audited yet
NewCacheManager ==
  /\ cacheAudits = <<>>
  /\ confidenceThreshold = DefaultConfidenceThreshold
  /\ warnings = 0
  /\ managerResult = <<>>

\* new Registry(registryPath, indexPath, indexGenerator) with no file at
\* registryPath: load() returns {}
NewRegistry ==
  /\ regEntries = <<>>
  /\ regDirty = FALSE
  /\ regFile = <<>>
  /\ regIndexFile = <<>>
  /\ regWrites = 0

\* the library objects as constructed, no registration call made
LibrariesIdle ==
  /\ NoPredicateAudits
  /\ NewCacheManager
  /\ NewRegistry
  /\ registration = <<>>
  /\ NoCall

\* feedback texts, by what they are built from
NoFeedback == [kind |-> "", errors |-> <<>>, score |-> 0]
\* the infeasible branch leaving the feedback text as it was
GeneralizeFeedbackNotSet == NoFeedback
GeneralizeFeedback == [kind |-> "generalize", errors |-> <<>>, score |-> 0]
LowConfidenceFeedback(score) == [kind |-> "lowConfidence", errors |-> <<>>, score |-> score]
ValidationFeedback(errors) == [kind |-> "validationFailed", errors |-> errors, score |-> 0]

Init ==
  /\ typeText = MysteryBundle
  /\ openai \in BOOLEAN
  /\ pc = "processFile"
  /\ attempt = 0
  /\ feedback = NoFeedback
  /\ accumulatedConstraints = <<>>
  /\ accumulatedHeuristics = <<>>
  /\ attempts = <<>>
  /\ request = <<>>
  /\ response = <<>>
  /\ candidateSelectionAudit = <<>>
  /\ validation = <<>>
  /\ llmCalls = 0
  /\ entries = <<>>
  /\ candidateAudits = [t \in TypeTexts |-> <<>>]
  /\ validationAudits = [t \in TypeTexts |-> <<>>]
  /\ synthesized = <<>>
  /\ cacheEntry = <<>>
  /\ inlined = <<>>
  /\ error = <<>>
  /\ exitCode = 0
  /\ predicateRegistry = builtInPredicateSeeds
  /\ predicateRegistryDirty = TRUE
  /\ predicateRegistryFile = {}
  /\ augmentCalls = 0
  /\ LibrariesIdle

(* ------------------------------ audit log ------------------------------ *)

\* AuditLog.recordValidation putting the new audit in place of the list
recordValidationAuditsReplacing(audits, tt, n, valid, errors, text) ==
  [audits EXCEPT ![tt] =
     <<[attempt |-> n, valid |-> valid, errors |-> errors, feedback |-> text]>>]

\* AuditLog.recordValidation: the new validationAudits and entries
recordValidationAudits(audits, tt, n, valid, errors, text) ==
  [audits EXCEPT ![tt] =
     Append(@, [attempt |-> n, valid |-> valid, errors |-> errors, feedback |-> text])]

recordValidationEntries(log, tt, n, valid) ==
  Append(log, [type |-> IF valid THEN "validation_passed" ELSE "validation_failed",
               typeText |-> tt, attempt |-> n])

\* AuditLog.recordCandidateSelection: the new candidateAudits and entries
recordCandidateSelectionAudits(audits, tt, n, scores, selectedIndex, confidence) ==
  [audits EXCEPT ![tt] =
     Append(@, [attempt |-> n,
                candidateRankings |->
                  [r \in DOMAIN scores |->
                     [rank |-> r, name |-> scores[r].candidate.name,
                      totalScore |-> scores[r].totalScore,
                      complexityScore |-> scores[r].complexityScore,
                      coverageScore |-> scores[r].coverageScore,
                      reusabilityScore |-> scores[r].reusabilityScore]],
                selectedIndex |-> selectedIndex,
                selectedName |-> scores[selectedIndex + 1].candidate.name,
                selectedScore |-> scores[selectedIndex + 1].totalScore,
                confidence |-> confidence])]

recordCandidateSelectionEntries(log, tt, n) ==
  Append(log, [type |-> "candidate_selected", typeText |-> tt, attempt |-> n])

\* Array.from(map.values()).flat()
RECURSIVE Flat(_, _)
Flat(keys, f) ==
  IF keys = {} THEN <<>>
  ELSE LET k == CHOOSE x \in keys : TRUE
       IN  f[k] \o Flat(keys \ {k}, f)

IsValid(v) == v.valid

\* AuditLog.getSummary with the rate taken over the entries
getSummaryOverEntries ==
  LET validations == Flat(TypeTexts, validationAudits)
      passed == Len(SelectSeq(validations, IsValid))
      total == Len(validations)
  IN  [totalEntries |-> Len(entries),
       totalCandidateSelections |-> Len(Flat(TypeTexts, candidateAudits)),
       totalValidations |-> total,
       passed |-> passed,
       successRate |-> IF total > 0 THEN <<passed, Len(entries)>> ELSE <<0, 1>>]

\* AuditLog.getSummary: totalValidations, the passed count, and successRate
\* as the fraction passed / total (<<0, 1>> when nothing is recorded)
getSummary ==
  LET validations == Flat(TypeTexts, validationAudits)
      passed == Len(SelectSeq(validations, IsValid))
      total == Len(validations)
  IN  [totalEntries |-> Len(entries),
       totalCandidateSelections |-> Len(Flat(TypeTexts, candidateAudits)),
       totalValidations |-> total,
       passed |-> passed,
       successRate |-> IF total > 0 THEN <<passed, total>> ELSE <<0, 1>>]

(* ------------------------------- actions ------------------------------- *)

\* throw new Error(...): the message names the type text and the attempt
\* count or not ("" and 0 when it does not)
Throw(kind, tt, count) ==
  /\ error' = <<[kind |-> kind, typeText |-> tt, attemptCount |-> count]>>
  /\ pc' = "thrown"

\* attempts.push({ attempt, model, feedback, explanation })
AttemptEntry(text) ==
  [attempt |-> attempt, model |-> "gpt-4.1-mini", feedback |-> text,
   explanation |-> response[1].explanation]

\* processFile: no usable cache entry, so synthesizeValue is entered with the
\* derived constraints and no heuristics
ProcessFile ==
  /\ pc = "processFile"
  /\ attempts' = <<>>
  /\ feedback' = NoFeedback
  /\ accumulatedConstraints' = mergeConstraintSets(collectConstraints(typeText), <<>>)
  /\ accumulatedHeuristics' = <<>>
  /\ attempt' = 1
  /\ pc' = "loop"
  /\ predicateRegistry' = RegisterAll(predicateRegistry, collectConstraints(typeText))
  /\ predicateRegistryDirty' =
       (predicateRegistryDirty \/ predicateRegistry' # predicateRegistry)
  /\ UNCHANGED <<others, typeText, openai, predicateRegistryFile, request, loopLocals, llmCalls,
                 auditLog, outcome>>

\* callLLM without a client: throws before any request is made
CallLLMNoClient ==
  /\ pc = "loop"
  /\ attempt <= maxLLMAttempts
  /\ ~openai
  /\ Throw("noClient", typeText, 0)
  /\ UNCHANGED <<others, typeText, openai, registry, attempt, feedback, accumulatedConstraints,
                 accumulatedHeuristics, attempts, request, loopLocals, llmCalls,
                 auditLog, synthesized, cacheEntry, inlined, exitCode>>

\* the request of this attempt: buildUserMessage(promptContext)
SendRequest ==
  /\ request' = <<[attempt |-> attempt, feedback |-> feedback]>>
  /\ llmCalls' = llmCalls + 1

\* callLLM: openai.responses.create rejects, or returns no text
CallLLMRaises ==
  /\ pc = "loop"
  /\ attempt <= maxLLMAttempts
  /\ openai
  /\ SendRequest
  /\ \/ Throw("transport", "", 0)
     \/ Throw("emptyResponse", typeText, 0)
  /\ UNCHANGED <<others, typeText, openai, registry, attempt, feedback, accumulatedConstraints,
                 accumulatedHeuristics, attempts, loopLocals,
                 auditLog, synthesized, cacheEntry, inlined, exitCode>>

\* callLLM: parseLLMResponse throws on text that is not JSON
CallLLMParseFailure ==
  /\ pc = "loop"
  /\ attempt <= maxLLMAttempts
  /\ openai
  /\ SendRequest
  /\ Throw("parse", "", 0)
  /\ UNCHANGED <<others, typeText, openai, registry, attempt, feedback, accumulatedConstraints,
                 accumulatedHeuristics, attempts, loopLocals,
                 auditLog, synthesized, cacheEntry, inlined, exitCode>>

\* callLLM returns a parsed response
CallLLMReturns ==
  /\ pc = "loop"
  /\ attempt <= maxLLMAttempts
  /\ openai
  /\ SendRequest
  /\ \E r \in LLMResponses : response' = <<r>>
  /\ candidateSelectionAudit' = <<>>
  /\ validation' = <<>>
  /\ pc' = "response"
  /\ UNCHANGED <<others, typeText, openai, registry, attempt, feedback, accumulatedConstraints,
                 accumulatedHeuristics, attempts, auditLog, outcome>>

\* if (response.explanation === "__INFEASIBLE__") { ...; continue; }
Infeasible ==
  /\ pc = "response"
  /\ response[1].explanation = INFEASIBLE
  /\ attempts' = Append(attempts, AttemptEntry(feedback))
  /\ validationAudits' =
       recordValidationAudits(validationAudits, typeText, attempt, FALSE,
                              <<"Infeasible">>, "Constraint set appears infeasible")
  /\ entries' = recordValidationEntries(entries, typeText, attempt, FALSE)
  /\ feedback' = GeneralizeFeedback
  /\ attempt' = attempt + 1
  /\ response' = <<>>
  /\ pc' = "loop"
  /\ UNCHANGED <<others, typeText, openai, registry, accumulatedConstraints, accumulatedHeuristics,
                 request, candidateSelectionAudit, validation, llmCalls,
                 candidateAudits, outcome>>

\* candidate.name || `candidate_${index + 1}`, sanitized
CandidateName(candidate, index) ==
  sanitizeIdentifier(IF candidate.name = "" THEN "candidate_" \o ToString(index)
                     ELSE candidate.name)

\* the candidates of the response as HeuristicDefinitions
ResponseCandidates(validators) ==
  [i \in DOMAIN validators |->
     [name |-> CandidateName(validators[i], i),
      description |-> IF validators[i].description = "" THEN "Candidate validator"
                      ELSE validators[i].description,
      predicate |-> validators[i].predicate]]

\* the candidateSelectionAudit kept for the cache entry
SelectionAuditOf(ranked) ==
  [attempt |-> attempt,
   selectedCandidateIndex |-> 0,
   selectedCandidateName |-> ranked[1].candidate.name,
   candidateScores |->
     [r \in DOMAIN ranked |->
        [name |-> ranked[r].candidate.name, totalScore |-> ranked[r].totalScore,
         complexityScore |-> ranked[r].complexityScore,
         coverageScore |-> ranked[r].coverageScore,
         reusabilityScore |-> ranked[r].reusabilityScore]],
   confidence |-> ranked[1].totalScore]

\* the candidates ranked over the sample values of the bundle
RankCandidatesOverSamples ==
  /\ pc = "response"
  /\ response[1].explanation # INFEASIBLE
  /\ LET validators == response[1].candidateValidators
         ranked == rankCandidates(ResponseCandidates(validators), accumulatedConstraints, Values)
     IN  IF Len(validators) > 0
         THEN /\ candidateAudits' =
                   recordCandidateSelectionAudits(candidateAudits, typeText, attempt,
                                                  ranked, 0, ranked[1].totalScore)
              /\ entries' = recordCandidateSelectionEntries(entries, typeText, attempt)
              /\ candidateSelectionAudit' = <<SelectionAuditOf(ranked)>>
              /\ feedback' = IF isConfidentCandidate(ranked[1], 6000) THEN feedback
                             ELSE LowConfidenceFeedback(ranked[1].totalScore)
         ELSE UNCHANGED <<candidateAudits, entries, candidateSelectionAudit, feedback>>
  /\ pc' = "compile"
  /\ UNCHANGED <<others, typeText, openai, registry, attempt, accumulatedConstraints,
                 accumulatedHeuristics, attempts, request, response, validation,
                 llmCalls, validationAudits, outcome>>

\* rank the response's candidate validators, audit the selection, and set
\* the low-confidence feedback
RankCandidates ==
  /\ pc = "response"
  /\ response[1].explanation # INFEASIBLE
  /\ LET validators == response[1].candidateValidators
         ranked == rankCandidates(ResponseCandidates(validators), accumulatedConstraints, {})
     IN  IF Len(validators) > 0
         THEN /\ candidateAudits' =
                   recordCandidateSelectionAudits(candidateAudits, typeText, attempt,
                                                  ranked, 0, ranked[1].totalScore)
              /\ entries' = recordCandidateSelectionEntries(entries, typeText, attempt)
              /\ candidateSelectionAudit' = <<SelectionAuditOf(ranked)>>
              /\ feedback' = IF isConfidentCandidate(ranked[1], 6000) THEN feedback
                             ELSE LowConfidenceFeedback(ranked[1].totalScore)
         ELSE UNCHANGED <<candidateAudits, entries, candidateSelectionAudit, feedback>>
  /\ pc' = "compile"
  /\ UNCHANGED <<others, typeText, openai, registry, attempt, accumulatedConstraints,
                 accumulatedHeuristics, attempts, request, response, validation,
                 llmCalls, validationAudits, outcome>>

\* compileHeuristics(response.heuristics) and the two merges; a predicate
\* that does not compile throws out of synthesizeValue
CompileHeuristics ==
  /\ pc = "compile"
  /\ IF compileHeuristicsThrows(response[1].heuristics)
     THEN /\ Throw("compile", "", 0)
          /\ UNCHANGED <<accumulatedConstraints, accumulatedHeuristics>>
     ELSE /\ accumulatedConstraints' =
               mergeConstraintSets(accumulatedConstraints,
                                   compileHeuristics(response[1].heuristics).constraints)
          /\ accumulatedHeuristics' =
               mergeHeuristicDefs(accumulatedHeuristics,
                                  compileHeuristics(response[1].heuristics).normalized)
          /\ pc' = "validate"
          /\ UNCHANGED error
  /\ predicateRegistry' =
       RegisterAll(predicateRegistry,
                   CompiledPrefix(compileHeuristics(response[1].heuristics).constraints))
  /\ predicateRegistryDirty' =
       (predicateRegistryDirty \/ predicateRegistry' # predicateRegistry)
  /\ UNCHANGED <<others, typeText, openai, predicateRegistryFile, attempt, feedback, attempts, request, loopLocals,
                 llmCalls, auditLog, synthesized, cacheEntry, inlined, exitCode>>

\* const validation = validateValue(accumulatedConstraints, response.value)
ValidateValue ==
  /\ pc = "validate"
  /\ validation' = <<validateValue(accumulatedConstraints, response[1].value)>>
  /\ pc' = "validated"
  /\ UNCHANGED <<others, typeText, openai, registry, attempt, feedback, accumulatedConstraints,
                 accumulatedHeuristics, attempts, request, response,
                 candidateSelectionAudit, llmCalls, auditLog, outcome>>

\* the accepted value recorded, and the loop going on to the next attempt
ValidationPassedLooping ==
  /\ pc = "validated"
  /\ validation[1].ok
  /\ validationAudits' =
       recordValidationAudits(validationAudits, typeText, attempt, TRUE, <<>>, "")
  /\ entries' = recordValidationEntries(entries, typeText, attempt, TRUE)
  /\ attempts' = Append(attempts, AttemptEntry(feedback))
  /\ attempt' = attempt + 1
  /\ response' = <<>>
  /\ candidateSelectionAudit' = <<>>
  /\ validation' = <<>>
  /\ pc' = "loop"
  /\ UNCHANGED <<others, typeText, openai, registry, feedback, accumulatedConstraints,
                 accumulatedHeuristics, request, llmCalls, candidateAudits, outcome>>

\* if (validation.ok) { recordValidation(true); attempts.push; return {...} }
ValidationPassed ==
  /\ pc = "validated"
  /\ validation[1].ok
  /\ validationAudits' =
       recordValidationAudits(validationAudits, typeText, attempt, TRUE, <<>>, "")
  /\ entries' = recordValidationEntries(entries, typeText, attempt, TRUE)
  /\ attempts' = Append(attempts, AttemptEntry(feedback))
  /\ synthesized' =
       <<[value |-> response[1].value,
          attempts |-> attempts',
          heuristics |-> accumulatedHeuristics,
          constraints |-> accumulatedConstraints,
          candidateSelectionAudit |-> candidateSelectionAudit]>>
  /\ pc' = "returned"
  /\ UNCHANGED <<others, typeText, openai, registry, attempt, feedback, accumulatedConstraints,
                 accumulatedHeuristics, request, loopLocals, llmCalls,
                 candidateAudits, cacheEntry, inlined, error, exitCode>>

\* the rejected value: attempts.push; recordValidation(false, errors); the
\* feedback of the next attempt; attempt += 1
ValidationFailed ==
  /\ pc = "validated"
  /\ ~validation[1].ok
  /\ attempts' = Append(attempts, AttemptEntry(feedback))
  /\ validationAudits' =
       recordValidationAudits(validationAudits, typeText, attempt, FALSE,
                              validation[1].errors, "")
  /\ entries' = recordValidationEntries(entries, typeText, attempt, FALSE)
  /\ feedback' = ValidationFeedback(validation[1].errors)
  /\ attempt' = attempt + 1
  /\ response' = <<>>
  /\ candidateSelectionAudit' = <<>>
  /\ validation' = <<>>
  /\ pc' = "loop"
  /\ UNCHANGED <<others, typeText, openai, registry, accumulatedConstraints, accumulatedHeuristics,
                 request, llmCalls, candidateAudits, outcome>>

\* the loop ran out: throw new Error(`Failed to satisfy type ... after N attempt(s).`)
Exhausted ==
  /\ pc = "loop"
  /\ attempt > maxLLMAttempts
  /\ Throw("exhausted", typeText, maxLLMAttempts)
  /\ UNCHANGED <<others, typeText, openai, registry, attempt, feedback, accumulatedConstraints,
                 accumulatedHeuristics, attempts, request, loopLocals, llmCalls,
                 auditLog, synthesized, cacheEntry, inlined, exitCode>>

IsHeuristic(constraint) == constraint.source = "heuristic"

\* processFile after synthesizeValue returned: validate against the derived
\* constraints merged with the heuristic ones, then save the cache entry,
\* inline the literal and persist the predicate registry
Deliver ==
  /\ pc = "returned"
  /\ LET heuristicConstraints == SelectSeq(synthesized[1].constraints, IsHeuristic)
         combinedConstraints ==
           mergeConstraintSets(collectConstraints(typeText), heuristicConstraints)
         check == validateValue(combinedConstraints, synthesized[1].value)
     IN  IF ~check.ok
         THEN /\ Throw("postValidation", typeText, 0)
              /\ UNCHANGED <<cacheEntry, inlined, predicateRegistryDirty,
                             predicateRegistryFile>>
         ELSE /\ cacheEntry' =
                   <<[typeText |-> typeText,
                      fingerprint |-> computeTypeFingerprint(typeText, "current"),
                      value |-> synthesized[1].value,
                      attempts |-> synthesized[1].attempts,
                      heuristics |-> synthesized[1].heuristics,
                      candidateSelectionAudit |-> synthesized[1].candidateSelectionAudit]>>
              /\ inlined' = <<synthesized[1].value>>
              /\ pc' = "exit"
              /\ predicateRegistryFile' =
                   IF predicateRegistryDirty THEN predicateRegistry
                   ELSE predicateRegistryFile
              /\ predicateRegistryDirty' = FALSE
              /\ UNCHANGED error
  /\ UNCHANGED <<others, typeText, openai, predicateRegistry, attempt, feedback, accumulatedConstraints,
                 accumulatedHeuristics, attempts, request, loopLocals, llmCalls,
                 auditLog, synthesized, exitCode>>

\* main().catch((error) => { console.error(error); process.exitCode = 1; })
MainCatch ==
  /\ pc = "thrown"
  /\ exitCode' = 1
  /\ pc' = "exit"
  /\ UNCHANGED <<others, typeText, openai, registry, attempt, feedback, accumulatedConstraints,
                 accumulatedHeuristics, attempts, request, loopLocals, llmCalls,
                 auditLog, synthesized, cacheEntry, inlined, error>>

Next ==
  \/ ProcessFile
  \/ CallLLMNoClient
  \/ CallLLMRaises
  \/ CallLLMParseFailure
  \/ CallLLMReturns
  \/ Infeasible
  \/ RankCandidates
  \/ CompileHeuristics
  \/ ValidateValue
  \/ ValidationPassed
  \/ ValidationFailed
  \/ Exhausted
  \/ Deliver
  \/ MainCatch

Spec == Init /\ [][Next]_vars

(* ------------------------- processFile and the cache ------------------- *)

\* a heuristic as a cache entry keeps it (normalized by compileHeuristics)
hCached == [name |-> "exceeds100", description |-> "Value must exceed 100",
            predicate |-> SrcShort]

CurrentFingerprint == computeTypeFingerprint(MysteryBundle, "current")
OldFingerprint == computeTypeFingerprint(MysteryBundle, "old")

\* what processFile may find at cachePath: no file, a file that is not JSON,
\* an entry that still holds, an entry written for other declarations, an
\* entry whose heuristic does not compile, an entry whose value is odd
CacheFiles ==
  {<<>>,
   <<Unreadable>>,
   <<CacheEntry(MysteryBundle, CurrentFingerprint, 102, <<hCached>>)>>,
   <<CacheEntry(MysteryBundle, OldFingerprint, 102, <<hCached>>)>>,
   <<CacheEntry(MysteryBundle, CurrentFingerprint, 102, <<hBroken>>)>>,
   <<CacheEntry(MysteryBundle, CurrentFingerprint, 101, <<hCached>>)>>}

\* processFile reaches the Decohere<T>() call with some cache file on disk
InitCache ==
  /\ typeText = MysteryBundle
  /\ openai \in BOOLEAN
  /\ pc = "start"
  /\ attempt = 0
  /\ feedback = NoFeedback
  /\ accumulatedConstraints = <<>>
  /\ accumulatedHeuristics = <<>>
  /\ attempts = <<>>
  /\ request = <<>>
  /\ response = <<>>
  /\ candidateSelectionAudit = <<>>
  /\ validation = <<>>
  /\ llmCalls = 0
  /\ entries = <<>>
  /\ candidateAudits = [t \in TypeTexts |-> <<>>]
  /\ validationAudits = [t \in TypeTexts |-> <<>>]
  /\ synthesized = <<>>
  /\ cacheEntry \in CacheFiles
  /\ inlined = <<>>
  /\ error = <<>>
  /\ exitCode = 0
  /\ predicateRegistry = builtInPredicateSeeds
  /\ predicateRegistryDirty = TRUE
  /\ predicateRegistryFile = {}
  /\ augmentCalls = 0
  /\ LibrariesIdle

\* processFile: one augmentExampleSets call per component with examples when
\* a client is configured; whatever the call returns or throws, processFile
\* goes on (the augmented examples are not tracked)
AugmentExampleSets ==
  /\ pc = "start"
  /\ augmentCalls' = IF openai
                     THEN augmentCalls + Cardinality(ComponentContexts(typeText))
                     ELSE augmentCalls
  /\ pc' = "lookup"
  /\ UNCHANGED <<libraries, typeText, openai, registry, attempt, feedback,
                 accumulatedConstraints, accumulatedHeuristics, attempts, request,
                 loopLocals, llmCalls, auditLog, outcome>>

\* the registry after collectConstraints and materializeFromCache ran
RegistryAfterLookup ==
  RegisterAll(RegisterAll(predicateRegistry, collectConstraints(typeText)),
              CachedHeuristicsCompiled(cacheEntry, CurrentFingerprint))

\* the cached path saving the entry again, without its heuristics
CacheHitSavingEntry ==
  /\ pc = "lookup"
  /\ LET cachedResult ==
           materializeFromCache(cacheEntry, CurrentFingerprint, collectConstraints(typeText))
     IN  /\ cachedResult # <<>>
         /\ inlined' = <<cachedResult[1].entry.value>>
         /\ cacheEntry' = <<[cachedResult[1].entry EXCEPT !.heuristics = <<>>]>>
  /\ predicateRegistry' = RegistryAfterLookup
  /\ predicateRegistryFile' =
       IF predicateRegistryDirty \/ predicateRegistry' # predicateRegistry
       THEN predicateRegistry' ELSE predicateRegistryFile
  /\ predicateRegistryDirty' = FALSE
  /\ pc' = "exit"
  /\ UNCHANGED <<others, typeText, openai, attempt, feedback, accumulatedConstraints,
                 accumulatedHeuristics, attempts, request, loopLocals, llmCalls,
                 auditLog, synthesized, error, exitCode>>

\* processFile: materializeFromCache returns the entry; its value is put in
\* place of the call and the predicate registry is persisted
CacheHit ==
  /\ pc = "lookup"
  /\ LET cachedResult ==
           materializeFromCache(cacheEntry, CurrentFingerprint, collectConstraints(typeText))
     IN  /\ cachedResult # <<>>
         /\ inlined' = <<cachedResult[1].entry.value>>
  /\ predicateRegistry' = RegistryAfterLookup
  /\ predicateRegistryFile' =
       IF predicateRegistryDirty \/ predicateRegistry' # predicateRegistry
       THEN predicateRegistry' ELSE predicateRegistryFile
  /\ predicateRegistryDirty' = FALSE
  /\ pc' = "exit"
  /\ UNCHANGED <<others, typeText, openai, attempt, feedback, accumulatedConstraints,
                 accumulatedHeuristics, attempts, request, loopLocals, llmCalls,
                 auditLog, synthesized, cacheEntry, error, exitCode>>

\* processFile: materializeFromCache returns undefined, so synthesizeValue is
\* entered with the derived constraints and no heuristics
CacheMiss ==
  /\ pc = "lookup"
  /\ materializeFromCache(cacheEntry, CurrentFingerprint, collectConstraints(typeText)) = <<>>
  /\ attempts' = <<>>
  /\ feedback' = NoFeedback
  /\ accumulatedConstraints' = mergeConstraintSets(collectConstraints(typeText), <<>>)
  /\ accumulatedHeuristics' = <<>>
  /\ attempt' = 1
  /\ pc' = "loop"
  /\ predicateRegistry' = RegistryAfterLookup
  /\ predicateRegistryDirty' =
       (predicateRegistryDirty \/ predicateRegistry' # predicateRegistry)
  /\ UNCHANGED <<others, typeText, openai, predicateRegistryFile, request, loopLocals,
                 llmCalls, auditLog, outcome>>

NextCache ==
  \/ AugmentExampleSets
  \/ CacheHit
  \/ CacheMiss
  \/ CallLLMNoClient
  \/ CallLLMRaises
  \/ CallLLMParseFailure
  \/ CallLLMReturns
  \/ Infeasible
  \/ RankCandidates
  \/ CompileHeuristics
  \/ ValidateValue
  \/ ValidationPassed
  \/ ValidationFailed
  \/ Exhausted
  \/ Deliver
  \/ MainCatch

SpecCache == InitCache /\ [][NextCache]_vars

(* ------------------------------ properties ----------------------------- *)

ValidationAuditsOfBundle == validationAudits[typeText]
CandidateAuditsOfBundle == candidateAudits[typeText]
DerivedConstraints == collectConstraints(typeText)
Range(seq) == {seq[i] : i \in DOMAIN seq}

\* C1: synthesizeValue returns a value only if that value passes the test of
\* every constraint of the accumulated set (the base constraints merged with
\* every compiled heuristic, each accumulated heuristic having its
\* constraint in the set); the returned constraints are that set.
C1_ReturnedValuePassesAccumulated ==
  synthesized # <<>> =>
    /\ synthesized[1].constraints = accumulatedConstraints
    /\ \A i \in DOMAIN accumulatedConstraints :
         Test(accumulatedConstraints[i], synthesized[1].value)
    /\ \A d \in DOMAIN DerivedConstraints :
         \E i \in DOMAIN accumulatedConstraints :
           accumulatedConstraints[i].name = DerivedConstraints[d].name
    /\ \A h \in DOMAIN accumulatedHeuristics :
         \E i \in DOMAIN accumulatedConstraints :
           /\ accumulatedConstraints[i].name = accumulatedHeuristics[h].name
           /\ accumulatedConstraints[i].predicateSource = accumulatedHeuristics[h].predicate
           /\ accumulatedConstraints[i].source = "heuristic"

\* a value returned at the second attempt, against the two derived
\* constraints and a heuristic kept from the responses
C1_Witness ==
  /\ synthesized # <<>>
  /\ Len(synthesized[1].attempts) = 2
  /\ Len(synthesized[1].constraints) = 3
  /\ \E i \in DOMAIN synthesized[1].constraints :
       synthesized[1].constraints[i].predicateSource = SrcOdd

\* C2 (as claimed): every value delivered for the bundle (inlined and written
\* to the cache entry) satisfies every derived must constraint.
C2_DeliveredSatisfiesDerived ==
  /\ inlined # <<>> =>
       \A d \in DOMAIN DerivedConstraints : Test(DerivedConstraints[d], inlined[1])
  /\ cacheEntry # <<>> =>
       \A d \in DOMAIN DerivedConstraints : Test(DerivedConstraints[d], cacheEntry[1].value)

\* C3 (as claimed): with an oracle configured, at most maxLLMAttempts oracle
\* calls are issued, one per attempt, and a synthesis in which no attempt
\* validated ends with an error naming the type text and the attempt count,
\* after which nothing is retried.
C3_ExhaustionIsTheOnlyFailure ==
  /\ llmCalls <= maxLLMAttempts
  /\ pc \in {"response", "compile", "validate", "validated"} => llmCalls = attempt
  /\ (openai /\ pc \in {"thrown", "exit"} /\ synthesized = <<>>) =>
       /\ error # <<>>
       /\ error[1].typeText = typeText
       /\ error[1].attemptCount = maxLLMAttempts
       /\ llmCalls = maxLLMAttempts

\* C4 (as claimed): whenever N attempts of the bundle's synthesis have run,
\* whatever their outcomes, the audit log holds exactly N ValidationAudit
\* records and at most N CandidateSelectionAudit records for the bundle.
C4_AuditCompleteness ==
  pc \in {"loop", "returned", "thrown", "exit"} =>
    /\ Len(ValidationAuditsOfBundle) = llmCalls
    /\ Len(CandidateAuditsOfBundle) <= llmCalls

OracleFailures == {"transport", "emptyResponse", "parse"}

\* C5 (as claimed): the synthesis does not end with the error of a failed
\* oracle call (transport error, empty response, malformed JSON) while
\* attempts remain.
C5_OracleFailureIsRetried ==
  (error # <<>> /\ error[1].kind \in OracleFailures) => attempt >= maxLLMAttempts

\* C6 (as claimed): a heuristic whose predicate does not compile never makes
\* synthesizeValue throw.
C6_CompileFailureIsDropped ==
  error # <<>> => error[1].kind # "compile"

InfeasibleResponse == pc = "response" /\ response[1].explanation = INFEASIBLE

\* C7: a response carrying the infeasibility sentinel is logged in the
\* attempts list; its value is not validated and its heuristics and candidate
\* validators are neither compiled, merged nor ranked; the feedback becomes
\* the generalization instruction, which the request of attempt k+1 carries;
\* and the attempt counts against maxLLMAttempts.
C7_InfeasibleRetry ==
  /\ [](/\ llmCalls <= maxLLMAttempts
        /\ Len(attempts) <= llmCalls
        /\ \A k \in DOMAIN attempts :
             (attempts[k].explanation = INFEASIBLE /\ request # <<>>
              /\ request[1].attempt = k + 1) =>
               request[1].feedback.kind = "generalize")
  /\ [][InfeasibleResponse =>
          /\ attempts' = Append(attempts,
                                [attempt |-> attempt, model |-> "gpt-4.1-mini",
                                 feedback |-> feedback, explanation |-> INFEASIBLE])
          /\ accumulatedConstraints' = accumulatedConstraints
          /\ accumulatedHeuristics' = accumulatedHeuristics
          /\ candidateAudits' = candidateAudits
          /\ predicateRegistry' = predicateRegistry
          /\ validation' = <<>>
          /\ feedback'.kind = "generalize"
          /\ attempt' = attempt + 1
          /\ pc' = "loop"]_vars

\* attempt 2 was requested with the generalization feedback after an
\* infeasible first response
C7_Witness ==
  /\ pc = "response"
  /\ attempt = 2
  /\ attempts[1].explanation = INFEASIBLE
  /\ request[1].feedback.kind = "generalize"
  /\ accumulatedConstraints = DerivedConstraints

\* C8 (as claimed): an attempt that ended with the infeasibility sentinel adds
\* no valid = false ValidationAudit and no validation_failed entry.
C8_InfeasibleIsNoValidationFailure ==
  /\ \A i \in DOMAIN ValidationAuditsOfBundle :
       ~ValidationAuditsOfBundle[i].valid =>
         \E k \in DOMAIN attempts :
           /\ attempts[k].attempt = ValidationAuditsOfBundle[i].attempt
           /\ attempts[k].explanation # INFEASIBLE
  /\ \A i \in DOMAIN entries :
       entries[i].type = "validation_failed" =>
         \E k \in DOMAIN attempts :
           /\ attempts[k].attempt = entries[i].attempt
           /\ attempts[k].explanation # INFEASIBLE

\* the indexes of the constraints whose test the value fails
Failing(constraints, value) == {i \in DOMAIN constraints : ~Test(constraints[i], value)}

\* errors lists the description of every failing constraint, once per
\* failing constraint, in constraint order
ErrorsAreTheFailedInOrder(constraints, value, errors) ==
  LET failing == Failing(constraints, value)
      nth(k) == CHOOSE i \in failing : Cardinality({j \in failing : j < i}) = k - 1
  IN  /\ Len(errors) = Cardinality(failing)
      /\ \A k \in 1..Len(errors) : errors[k] = constraints[nth(k)].description

\* errors holds no description of a constraint the value passed
NoPassedDescription(constraints, value, errors) ==
  \A i \in DOMAIN constraints :
    Test(constraints[i], value) => constraints[i].description \notin Range(errors)

RejectedValue == pc = "validated" /\ ~validation[1].ok
RecordedErrors == ValidationAuditsOfBundle[Len(ValidationAuditsOfBundle)].errors

\* the request of attempt k+1 carries the errors recorded for a rejected attempt k
RequestCarriesRecordedErrors ==
  \A k \in DOMAIN attempts :
    (attempts[k].explanation # INFEASIBLE /\ request # <<>> /\ request[1].attempt = k + 1) =>
      /\ request[1].feedback.kind = "validationFailed"
      /\ request[1].feedback.errors = ValidationAuditsOfBundle[k].errors
      /\ ~ValidationAuditsOfBundle[k].valid

\* C9 (amended): on a validation failure at attempt k, the errors of the
\* recorded ValidationAudit{valid:false}, and of the feedback sent with attempt
\* k+1, are exactly the descriptions of the constraints of the accumulated set
\* whose test the value failed, one per failing constraint, in constraint order.
C9_ErrorsNameEveryFailure ==
  /\ []RequestCarriesRecordedErrors
  /\ [][RejectedValue =>
          /\ ErrorsAreTheFailedInOrder(accumulatedConstraints, response[1].value,
                                       RecordedErrors')
          /\ ~ValidationAuditsOfBundle'[Len(ValidationAuditsOfBundle')].valid
          /\ feedback'.kind = "validationFailed"
          /\ feedback'.errors = RecordedErrors']_vars

\* the value of attempt 1 failed both derived constraints and attempt 2 was
\* requested with both descriptions
C9_Witness ==
  /\ request # <<>>
  /\ request[1].attempt = 2
  /\ attempts[1].explanation # INFEASIBLE
  /\ request[1].feedback.errors =
       <<"Value must be a number strictly greater than 100", "Value must be even">>
  /\ ValidationAuditsOfBundle[1].errors = request[1].feedback.errors

\* C9 (as claimed): in addition, the recorded errors hold no description of a
\* constraint the value passed.
C9_NoDescriptionOfPassedConstraint ==
  [][RejectedValue =>
       /\ ErrorsAreTheFailedInOrder(accumulatedConstraints, response[1].value,
                                    RecordedErrors')
       /\ NoPassedDescription(accumulatedConstraints, response[1].value,
                              RecordedErrors')]_vars

\* the positions in entries of the records of one kind for one attempt
EntriesOf(types, n) ==
  {i \in DOMAIN entries : entries[i].type \in types /\ entries[i].attempt = n}

\* C10 (as claimed): the selection of an attempt with candidates is in the
\* audit log before the value is validated, and there is no state in which
\* attempt k+1 has started, or synthesizeValue has exited, while the outcome
\* of an attempt that ran is missing from the audit log.
C10_NeverAdvancesWithoutAudit ==
  /\ (pc \in {"compile", "validate", "validated"}
      /\ Len(response[1].candidateValidators) > 0) =>
       /\ EntriesOf({"candidate_selected"}, attempt) # {}
       /\ EntriesOf({"validation_passed", "validation_failed"}, attempt) = {}
  /\ pc = "loop" =>
       \A n \in 1..(attempt - 1) :
         EntriesOf({"validation_passed", "validation_failed"}, n) # {}
  /\ pc \in {"returned", "thrown", "exit"} =>
       \A n \in 1..llmCalls :
         EntriesOf({"validation_passed", "validation_failed"}, n) # {}

(* ------------------------- AuditLog: predicate audits ------------------ *)

\* recordPredicateDiscovery calls made on one AuditLog between two clear()
MaxDiscoveries == 3
\* the latest time new Date() returns
MaxClock == 3

\* confidences on the 0-1 scale, in thousandths
Confidences == {500, 900, 950}

\* (name, discoveredFrom) of the calls
Discoverers ==
  {[name |-> "isEven", discoveredFrom |-> "Even"],
   [name |-> "isEvenNumber", discoveredFrom |-> MysteryBundle]}

\* recordPredicateDiscovery taking the confidence of the latest call
recordPredicateDiscoveryLatest(audits, predicateId, name, discoveredFrom, confidence, now) ==
  IF audits[predicateId] # <<>>
  THEN [audits EXCEPT ![predicateId] =
          <<[@[1] EXCEPT !.usageCount = @ + 1, !.lastUsedAt = now,
                         !.confidence = confidence]>>]
  ELSE [audits EXCEPT ![predicateId] =
          <<[predicateId |-> predicateId, name |-> name, discoveredAt |-> now,
             discoveredFrom |-> discoveredFrom, confidence |-> confidence,
             usageCount |-> 1, lastUsedAt |-> now]>>]

\* AuditLog.recordPredicateDiscovery: the new predicateAudits
recordPredicateDiscovery(audits, predicateId, name, discoveredFrom, confidence, now) ==
  IF audits[predicateId] # <<>>
  THEN [audits EXCEPT ![predicateId] =
          <<[@[1] EXCEPT !.usageCount = @ + 1, !.lastUsedAt = now,
                         !.confidence = IF confidence > @ THEN confidence ELSE @]>>]
  ELSE [audits EXCEPT ![predicateId] =
          <<[predicateId |-> predicateId, name |-> name, discoveredAt |-> now,
             discoveredFrom |-> discoveredFrom, confidence |-> confidence,
             usageCount |-> 1, lastUsedAt |-> now]>>]

\* the entry recordPredicateDiscovery pushes
DiscoveryEntry(predicateId, name, discoveredFrom, confidence, now) ==
  [timestamp |-> now, type |-> "predicate_discovered", typeText |-> discoveredFrom,
   predicateId |-> predicateId, name |-> name, confidence |-> confidence]

\* no file is processed: the library objects are driven on their own
NoSynthesis ==
  /\ typeText = MysteryBundle
  /\ openai = FALSE
  /\ pc = "library"
  /\ attempt = 0
  /\ feedback = NoFeedback
  /\ accumulatedConstraints = <<>>
  /\ accumulatedHeuristics = <<>>
  /\ attempts = <<>>
  /\ request = <<>>
  /\ response = <<>>
  /\ candidateSelectionAudit = <<>>
  /\ validation = <<>>
  /\ llmCalls = 0
  /\ synthesized = <<>>
  /\ cacheEntry = <<>>
  /\ inlined = <<>>
  /\ error = <<>>
  /\ exitCode = 0
  /\ augmentCalls = 0

\* new AuditLog()
EmptyAuditLog ==
  /\ entries = <<>>
  /\ candidateAudits = [t \in TypeTexts |-> <<>>]
  /\ validationAudits = [t \in TypeTexts |-> <<>>]
  /\ NoPredicateAudits

\* the predicate registry of decohere-build.ts as loaded and seeded
SeededPredicateRegistry ==
  /\ predicateRegistry = builtInPredicateSeeds
  /\ predicateRegistryDirty = TRUE
  /\ predicateRegistryFile = {}

InitAudit ==
  /\ NoSynthesis
  /\ EmptyAuditLog
  /\ SeededPredicateRegistry
  /\ NewCacheManager
  /\ NewRegistry
  /\ registration = <<>>
  /\ NoCall

\* auditLog.recordPredicateDiscovery(predicateId, name, discoveredFrom, confidence)
RecordPredicateDiscovery ==
  /\ Len(entries) < MaxDiscoveries
  /\ \E predicateId \in PredicateIds, d \in Discoverers, confidence \in Confidences,
        now \in {clock, clock + 1} :
       /\ now <= MaxClock
       /\ predicateAudits' =
            recordPredicateDiscovery(predicateAudits, predicateId, d.name,
                                     d.discoveredFrom, confidence, now)
       /\ entries' = Append(entries, DiscoveryEntry(predicateId, d.name, d.discoveredFrom,
                                                    confidence, now))
       /\ clock' = now
  /\ UNCHANGED <<synthesis, functionCall, registry, registryObject, registration, candidateAudits, validationAudits, manager>>

\* auditLog.clear()
Clear ==
  /\ entries' = <<>>
  /\ predicateAudits' = [id \in PredicateIds |-> <<>>]
  /\ candidateAudits' = [t \in TypeTexts |-> <<>>]
  /\ validationAudits' = [t \in TypeTexts |-> <<>>]
  /\ UNCHANGED <<synthesis, functionCall, registry, registryObject, registration, clock, manager>>

NextAudit ==
  \/ RecordPredicateDiscovery
  \/ Clear

SpecAudit == InitAudit /\ [][NextAudit]_vars

\* the positions in entries of the discoveries of one predicate id
DiscoveriesOf(predicateId) ==
  {i \in DOMAIN entries :
     entries[i].type = "predicate_discovered" /\ entries[i].predicateId = predicateId}

\* C13: after any sequence of recordPredicateDiscovery calls since the last
\* clear, the audit of a predicate id has the maximum confidence passed for
\* the id, a usageCount equal to the number of calls for the id, the time of
\* the latest call as lastUsedAt, and the name, discoveredAt and
\* discoveredFrom of the first call; an id never passed has no audit.
C13_PredicateAuditUpsert ==
  \A id \in PredicateIds :
    LET calls == DiscoveriesOf(id)
        first == CHOOSE i \in calls : \A j \in calls : i <= j
        last == CHOOSE i \in calls : \A j \in calls : i >= j
    IN  IF calls = {} THEN predicateAudits[id] = <<>>
        ELSE /\ predicateAudits[id] # <<>>
             /\ \A i \in calls : predicateAudits[id][1].confidence >= entries[i].confidence
             /\ \E i \in calls : predicateAudits[id][1].confidence = entries[i].confidence
             /\ predicateAudits[id][1].usageCount = Cardinality(calls)
             /\ predicateAudits[id][1].name = entries[first].name
             /\ predicateAudits[id][1].discoveredAt = entries[first].timestamp
             /\ predicateAudits[id][1].discoveredFrom = entries[first].typeText
             /\ predicateAudits[id][1].lastUsedAt = entries[last].timestamp

\* a predicate rediscovered later, under another name, from another bundle and
\* with a lower confidence
C13_Witness ==
  /\ Len(entries) = 3
  /\ DiscoveriesOf("pred_123") = {1, 3}
  /\ entries[1].confidence = 950
  /\ entries[3].confidence = 500
  /\ entries[3].name # entries[1].name
  /\ entries[3].timestamp > entries[1].timestamp
  /\ predicateAudits["pred_123"][1].confidence = 950
  /\ predicateAudits["pred_123"][1].usageCount = 2

(* ------------------------------ CacheManager --------------------------- *)

\* recordCandidateSelection calls made on the audit log
MaxSelections == 3
\* logger.warn calls counted
MaxWarnings == 2

\* private highConfidenceThreshold: number = 0.9, in ten-thousandths
highConfidenceThreshold == 9000

\* Number.NaN as a threshold: a value no comparison holds of
NaN == -1

\* a >= b, a < b, a > b of JavaScript numbers: false when an operand is NaN
GE(a, b) == a # NaN /\ b # NaN /\ a >= b
LT(a, b) == a # NaN /\ b # NaN /\ a < b
GT(a, b) == a # NaN /\ b # NaN /\ a > b

\* the confidences of recorded selections, in ten-thousandths: one in each
\* health bucket
SelectionConfidences == {5000, 8000, 9200, 9500}

\* the arguments of setConfidenceThreshold, in ten-thousandths: -0.1, 0.5,
\* 0.95, 1.5 and NaN
ThresholdInputs == {-1000, 5000, 9500, 15000, NaN}

\* the typeText of the .json files of the cache directory, in readdir order
CacheDirectories == {<<>>, <<"Even">>, <<MysteryBundle, "Even">>}

\* makeCacheKey(typeText) with the .json suffix
CacheFileName(tt) ==
  IF tt = "Even" THEN "Even_8c29bf34483d.json"
  ELSE "MysteryType_GreaterThanX_100_Even_55b873b9883d.json"

\* a file of the cache directory: its name, the extension the name ends
\* with, what readFileSync and JSON.parse make of it, and the typeText of
\* the entry ("" when it has none)
CacheFile(name, extension, content, tt) ==
  [name |-> name, extension |-> extension, content |-> content, typeText |-> tt]

\* the cache file processFile writes for a type text
CacheFileOf(tt) == CacheFile(CacheFileName(tt), ".json", "entry", tt)

\* a cache directory holding the cache files of the type texts
CacheDirectory(tts) ==
  [kind |-> "directory", files |-> [i \in DOMAIN tts |-> CacheFileOf(tts[i])]]

\* extractTypeFromCacheKey(file.replace(".json", "")): "Type_" and the first
\* eight characters of the key
extractTypeFromCacheKey(name) ==
  CASE name = "a1b2c3d4e5f6.json" -> "Type_a1b2c3d4"
    [] name = "Even_8c29bf34483d.json" -> "Type_Even_8c2"
    [] OTHER -> "Type_MysteryT"

\* the try block of the loop succeeds: the content parses to an object
ParsesToEntry(file) == file.content = "entry"

\* the CacheAudit pushed for a file
CacheAuditOf(file) ==
  [path |-> <<"generated", "cache", file.name>>,
   typeText |-> IF file.typeText # "" THEN file.typeText
                ELSE extractTypeFromCacheKey(file.name),
   confidence |-> 5000]

\* the loop over readdirSync(cacheDir): the audits pushed
RECURSIVE AuditFiles(_)
AuditFiles(files) ==
  IF files = <<>> THEN <<>>
  ELSE IF Head(files).extension # ".json" THEN AuditFiles(Tail(files))
  ELSE IF ParsesToEntry(Head(files)) THEN <<CacheAuditOf(Head(files))>> \o AuditFiles(Tail(files))
  ELSE AuditFiles(Tail(files))

\* the logger.warn calls of the loop
FailedFiles(files) ==
  Cardinality({i \in DOMAIN files : files[i].extension = ".json" /\ ~ParsesToEntry(files[i])})

\* auditCacheEntries leaving the loop at the first file it cannot audit
auditCacheEntriesStoppingAtFailure(cacheDir) ==
  IF cacheDir.kind = "missing" THEN [threw |-> FALSE, audits |-> <<>>, warned |-> 1]
  ELSE IF cacheDir.kind # "directory" THEN [threw |-> TRUE, audits |-> <<>>, warned |-> 0]
  ELSE LET bad == {i \in DOMAIN cacheDir.files :
                     cacheDir.files[i].extension = ".json" /\ ~ParsesToEntry(cacheDir.files[i])}
           upTo == IF bad = {} THEN Len(cacheDir.files)
                   ELSE (CHOOSE i \in bad : \A j \in bad : i <= j) - 1
       IN  [threw |-> FALSE,
            audits |-> AuditFiles(SubSeq(cacheDir.files, 1, upTo)),
            warned |-> FailedFiles(cacheDir.files)]

\* auditCacheEntries: [] for a missing directory, the error of readdirSync
\* for a path that is no directory, else one CacheAudit per .json file that
\* parses and a warning for each that does not
auditCacheEntries(cacheDir) ==
  IF cacheDir.kind = "missing" THEN [threw |-> FALSE, audits |-> <<>>, warned |-> 1]
  ELSE IF cacheDir.kind # "directory" THEN [threw |-> TRUE, audits |-> <<>>, warned |-> 0]
  ELSE [threw |-> FALSE,
        audits |-> AuditFiles(cacheDir.files),
        warned |-> FailedFiles(cacheDir.files)]

\* the oldest selection audit in place of the latest
LatestCandidateOldest(audits, tt) ==
  IF Len(audits[tt]) = 0 THEN <<>> ELSE <<audits[tt][1]>>

\* candidateAudits[candidateAudits.length - 1], <<>> for undefined
LatestCandidate(audits, tt) ==
  IF Len(audits[tt]) = 0 THEN <<>> ELSE <<audits[tt][Len(audits[tt])]>>

\* audit.path.split("/").pop()
CacheKey(audit) == audit.path[Len(audit.path)]

\* the action generateRegenerationReport decides for one cache audit
ReportAction(audit, audits, threshold) ==
  LET latestCandidate == LatestCandidate(audits, audit.typeText)
  IN  IF latestCandidate # <<>>
      THEN IF GE(latestCandidate[1].confidence, highConfidenceThreshold) THEN "preserve"
           ELSE IF GE(latestCandidate[1].confidence, threshold) THEN "preserve"
           ELSE "regenerate"
      ELSE "unknown"

\* the reason text, by its kind
ReportReason(audit, audits, threshold) ==
  LET latestCandidate == LatestCandidate(audits, audit.typeText)
  IN  IF latestCandidate # <<>>
      THEN IF GE(latestCandidate[1].confidence, highConfidenceThreshold)
           THEN "High confidence"
           ELSE IF GE(latestCandidate[1].confidence, threshold)
           THEN "Meets confidence threshold"
           ELSE "Low confidence"
      ELSE "No candidate selection audit found"

\* the details entry of one cache audit; confidence is [] when left out
ReportDetail(audit, audits, threshold) ==
  [typeText |-> audit.typeText,
   cacheKey |-> CacheKey(audit),
   action |-> ReportAction(audit, audits, threshold),
   reason |-> ReportReason(audit, audits, threshold),
   confidence |-> [i \in DOMAIN LatestCandidate(audits, audit.typeText) |->
                     LatestCandidate(audits, audit.typeText)[i].confidence]]

RECURSIVE SumSeq(_)
SumSeq(numbers) == IF numbers = <<>> THEN 0 ELSE Head(numbers) + SumSeq(Tail(numbers))

\* CacheManager.generateRegenerationReport: the report; averageConfidence is
\* the fraction totalConfidence / cacheAudits.length
generateRegenerationReport(audited, audits, threshold) ==
  LET details == [i \in DOMAIN audited |-> ReportDetail(audited[i], audits, threshold)]
      high == {i \in DOMAIN audited :
                 details[i].reason = "High confidence"}
      preserved == {i \in DOMAIN audited : details[i].action = "preserve"}
      marked == {i \in DOMAIN audited : details[i].action \in {"regenerate", "unknown"}}
  IN  [totalCacheEntries |-> Len(audited),
       entriesChecked |-> Len(audited),
       entriesPreserved |-> Cardinality(preserved),
       entriesMarkedForRegeneration |-> Cardinality(marked),
       highConfidencePreserved |-> Cardinality(high),
       averageConfidence |->
         IF Len(audited) > 0
         THEN <<SumSeq([i \in DOMAIN audited |-> SumSeq(details[i].confidence)]),
                Len(audited)>>
         ELSE <<0, 1>>,
       details |-> details]

\* audit.confidence = latestCandidate.confidence, where there is one
AuditsWithConfidence(audited, audits) ==
  [i \in DOMAIN audited |->
     IF LatestCandidate(audits, audited[i].typeText) # <<>>
     THEN [audited[i] EXCEPT
             !.confidence = LatestCandidate(audits, audited[i].typeText)[1].confidence]
     ELSE audited[i]]

\* latest?.confidence ?? 0 of each cache audit
HealthConfidences(audited, audits) ==
  [i \in DOMAIN audited |->
     IF LatestCandidate(audits, audited[i].typeText) # <<>>
     THEN LatestCandidate(audits, audited[i].typeText)[1].confidence
     ELSE 0]

\* confidences.filter(test).length for the four tests
Excellent(c) == c >= 9500
Good(c) == c >= 8500 /\ c < 9500
\* the good bucket starting at 0.75
GoodFrom75(c) == c >= 7500 /\ c < 9500
Acceptable(c) == c >= 7500 /\ c < 8500
Poor(c) == c < 7500

\* (bucket / total) * 100 as a fraction, 0 when total is 0
Percentage(bucket, total) == IF total > 0 THEN <<bucket * 100, total>> ELSE <<0, 1>>

\* getCacheHealthMetrics counting the acceptable entries as good as well
getCacheHealthMetricsOverlapping(audited, audits) ==
  LET confidences == HealthConfidences(audited, audits)
      excellent == Len(SelectSeq(confidences, Excellent))
      good == Len(SelectSeq(confidences, GoodFrom75))
      acceptable == Len(SelectSeq(confidences, Acceptable))
      poor == Len(SelectSeq(confidences, Poor))
      total == Len(audited)
  IN  [total |-> total, excellent |-> excellent, good |-> good,
       acceptable |-> acceptable, poor |-> poor,
       percentageExcellent |-> Percentage(excellent, total),
       percentageGood |-> Percentage(good, total),
       percentageAcceptable |-> Percentage(acceptable, total),
       percentagePoor |-> Percentage(poor, total)]

\* CacheManager.getCacheHealthMetrics
getCacheHealthMetrics(audited, audits) ==
  LET confidences == HealthConfidences(audited, audits)
      excellent == Len(SelectSeq(confidences, Excellent))
      good == Len(SelectSeq(confidences, Good))
      acceptable == Len(SelectSeq(confidences, Acceptable))
      poor == Len(SelectSeq(confidences, Poor))
      total == Len(audited)
  IN  [total |-> total, excellent |-> excellent, good |-> good,
       acceptable |-> acceptable, poor |-> poor,
       percentageExcellent |-> Percentage(excellent, total),
       percentageGood |-> Percentage(good, total),
       percentageAcceptable |-> Percentage(acceptable, total),
       percentagePoor |-> Percentage(poor, total)]

\* the scores handed to recordCandidateSelection: one candidate
OneCandidateScores == rankCandidates(ResponseCandidates(<<cShort>>), <<>>, {})

\* a CacheManager over an audited cache directory and an empty audit log
InitManager ==
  /\ NoSynthesis
  /\ EmptyAuditLog
  /\ SeededPredicateRegistry
  /\ \E directory \in CacheDirectories : cacheAudits = auditCacheEntries(CacheDirectory(directory)).audits
  /\ confidenceThreshold = DefaultConfidenceThreshold
  /\ warnings = 0
  /\ managerResult = <<>>
  /\ NewRegistry
  /\ registration = <<>>
  /\ NoCall

\* auditLog.recordCandidateSelection(typeText, attempt, scores, 0, confidence, reason)
RecordCandidateSelection ==
  /\ Len(entries) < MaxSelections
  /\ \E tt \in TypeTexts, confidence \in SelectionConfidences :
       /\ candidateAudits' =
            recordCandidateSelectionAudits(candidateAudits, tt, Len(candidateAudits[tt]) + 1,
                                           OneCandidateScores, 0, confidence)
       /\ entries' = recordCandidateSelectionEntries(entries, tt, Len(candidateAudits[tt]) + 1)
  /\ UNCHANGED <<synthesis, functionCall, registry, registryObject, registration, validationAudits, discoveries, manager>>

\* CacheManager.setConfidenceThreshold(threshold)
setConfidenceThreshold(threshold) ==
  IF LT(threshold, 0) \/ GT(threshold, 10000)
  THEN /\ warnings' = warnings + 1
       /\ UNCHANGED confidenceThreshold
  ELSE /\ confidenceThreshold' = threshold
       /\ UNCHANGED warnings

SetConfidenceThreshold(threshold) ==
  /\ warnings < MaxWarnings
  /\ setConfidenceThreshold(threshold)
  /\ UNCHANGED <<synthesis, functionCall, registry, registryObject, registration, auditLog, discoveries, cacheAudits, managerResult>>

\* cacheManager.generateRegenerationReport(cacheAudits)
GenerateRegenerationReport ==
  /\ managerResult' =
       <<generateRegenerationReport(cacheAudits, candidateAudits, confidenceThreshold)>>
  /\ cacheAudits' = AuditsWithConfidence(cacheAudits, candidateAudits)
  /\ UNCHANGED <<synthesis, functionCall, registry, registryObject, registration, auditLog, discoveries, confidenceThreshold, warnings>>

\* cacheManager.getCacheHealthMetrics(cacheAudits)
GetCacheHealthMetrics ==
  /\ managerResult' = <<getCacheHealthMetrics(cacheAudits, candidateAudits)>>
  /\ UNCHANGED <<synthesis, functionCall, registry, registryObject, registration, auditLog, discoveries, cacheAudits,
                 confidenceThreshold, warnings>>

\* CacheManager.getPreservableCacheEntries: the cache audits whose latest
\* selection audit has a confidence >= the configured threshold
getPreservableCacheEntries(audited, audits, threshold) ==
  LET Preservable(audit) ==
        LET latestCandidate == LatestCandidate(audits, audit.typeText)
        IN  latestCandidate # <<>> /\ GE(latestCandidate[1].confidence, threshold)
  IN  SelectSeq(audited, Preservable)

\* CacheManager.getCacheEntriesNeedingRegeneration: those without selection
\* audit or with a latest confidence < the configured threshold
getCacheEntriesNeedingRegeneration(audited, audits, threshold) ==
  LET NeedsRegeneration(audit) ==
        LET latestCandidate == LatestCandidate(audits, audit.typeText)
        IN  latestCandidate = <<>> \/ LT(latestCandidate[1].confidence, threshold)
  IN  SelectSeq(audited, NeedsRegeneration)

\* cacheManager.getPreservableCacheEntries(cacheAudits)
GetPreservableCacheEntries ==
  /\ managerResult' =
       <<[preservable |->
            getPreservableCacheEntries(cacheAudits, candidateAudits, confidenceThreshold)]>>
  /\ UNCHANGED <<synthesis, functionCall, registry, registryObject, registration, auditLog, discoveries, cacheAudits,
                 confidenceThreshold, warnings>>

\* cacheManager.getCacheEntriesNeedingRegeneration(cacheAudits)
GetCacheEntriesNeedingRegeneration ==
  /\ managerResult' =
       <<[needRegeneration |->
            getCacheEntriesNeedingRegeneration(cacheAudits, candidateAudits,
                                               confidenceThreshold)]>>
  /\ UNCHANGED <<synthesis, functionCall, registry, registryObject, registration, auditLog, discoveries, cacheAudits,
                 confidenceThreshold, warnings>>

NextManager ==
  \/ RecordCandidateSelection
  \/ \E threshold \in ThresholdInputs : SetConfidenceThreshold(threshold)
  \/ GenerateRegenerationReport
  \/ GetCacheHealthMetrics
  \/ GetPreservableCacheEntries
  \/ GetCacheEntriesNeedingRegeneration

SpecManager == InitManager /\ [][NextManager]_vars

\* the cache audits without a CandidateSelectionAudit for their typeText
Unaudited == {i \in DOMAIN cacheAudits : candidateAudits[cacheAudits[i].typeText] = <<>>}
Audited == DOMAIN cacheAudits \ Unaudited

\* the confidence of the most recently recorded selection of a cache audit
LatestConfidence(i) ==
  candidateAudits[cacheAudits[i].typeText][Len(candidateAudits[cacheAudits[i].typeText])].confidence

\* C14 (as claimed): generateRegenerationReport gives every cache entry
\* without CandidateSelectionAudit the action regenerate, never preserve, and
\* counts it in entriesMarkedForRegeneration.
C14_UnauditedEntriesAreRegenerate ==
  [][GenerateRegenerationReport =>
       /\ \A i \in Unaudited : managerResult'[1].details[i].action = "regenerate"
       /\ managerResult'[1].entriesMarkedForRegeneration >= Cardinality(Unaudited)]_vars

InUnitInterval(t) == t # NaN /\ 0 <= t /\ t <= 10000

\* C16 (as claimed): setConfidenceThreshold(t) with t outside [0, 1] logs
\* exactly one warning and leaves the threshold, and with it the report of
\* the current cache audits, unchanged; with t inside [0, 1] the threshold
\* becomes t and no warning is logged.
C16_OutsideUnitIntervalIsRejected ==
  [][\A t \in ThresholdInputs :
       SetConfidenceThreshold(t) =>
         IF InUnitInterval(t)
         THEN confidenceThreshold' = t /\ warnings' = warnings
         ELSE /\ warnings' = warnings + 1
              /\ confidenceThreshold' = confidenceThreshold
              /\ generateRegenerationReport(cacheAudits', candidateAudits',
                                            confidenceThreshold')
                   = generateRegenerationReport(cacheAudits, candidateAudits,
                                                confidenceThreshold)]_vars

\* the health bucket of a confidence
Bucket(c) ==
  IF c >= 9500 THEN "excellent"
  ELSE IF c >= 8500 THEN "good"
  ELSE IF c >= 7500 THEN "acceptable"
  ELSE "poor"

\* the cache audits of one bucket; an entry without selection audit is poor
InBucket(bucket) ==
  {i \in DOMAIN cacheAudits :
     IF i \in Unaudited THEN bucket = "poor" ELSE Bucket(LatestConfidence(i)) = bucket}

\* C17: getCacheHealthMetrics counts every cache audit in exactly one bucket
\* by its latest selection confidence: excellent (>= 0.95), good (>= 0.85 and
\* < 0.95), acceptable (>= 0.75 and < 0.85), poor (< 0.75 or no selection
\* audit); the four counts add up to total, and each percentage is
\* bucket / total * 100, 0 when total is 0.
C17_HealthBucketsPartition ==
  [][GetCacheHealthMetrics =>
       LET metrics == managerResult'[1]
       IN  /\ metrics.total = Len(cacheAudits)
           /\ metrics.excellent = Cardinality(InBucket("excellent"))
           /\ metrics.good = Cardinality(InBucket("good"))
           /\ metrics.acceptable = Cardinality(InBucket("acceptable"))
           /\ metrics.poor = Cardinality(InBucket("poor"))
           /\ metrics.excellent + metrics.good + metrics.acceptable + metrics.poor
                = metrics.total
           /\ \A name \in {"Excellent", "Good", "Acceptable", "Poor"} :
                LET count == CASE name = "Excellent" -> metrics.excellent
                               [] name = "Good" -> metrics.good
                               [] name = "Acceptable" -> metrics.acceptable
                               [] name = "Poor" -> metrics.poor
                    percentage == CASE name = "Excellent" -> metrics.percentageExcellent
                                    [] name = "Good" -> metrics.percentageGood
                                    [] name = "Acceptable" -> metrics.percentageAcceptable
                                    [] name = "Poor" -> metrics.percentagePoor
                IN  IF metrics.total = 0 THEN percentage = <<0, 1>>
                    ELSE percentage = <<count * 100, metrics.total>>]_vars

\* metrics of two cache entries: one with a latest confidence of 0.80, one
\* without selection audit
C17_Witness ==
  /\ managerResult # <<>>
  /\ "poor" \in DOMAIN managerResult[1]
  /\ managerResult[1].total = 2
  /\ managerResult[1].acceptable = 1
  /\ managerResult[1].poor = 1
  /\ managerResult[1].percentagePoor = <<100, 2>>
  /\ candidateAudits[MysteryBundle] = <<>>
  /\ Len(candidateAudits["Even"]) = 2
  /\ candidateAudits["Even"][2].confidence = 8000

(* ------------------------ properties of the cache ---------------------- *)

DeliveredFromCache == inlined # <<>> /\ synthesized = <<>>

\* C11 (as claimed): when processFile delivers the cached value of an entry
\* with an unchanged fingerprint and a value that still validates, no oracle
\* (LLM) call was made for the bundle.
C11_CacheHitMakesNoOracleCall ==
  DeliveredFromCache => (llmCalls = 0 /\ augmentCalls = 0)

\* the cache file is absent or unreadable, its fingerprint differs, one of
\* its heuristics does not compile, or its value fails a current constraint
StaleCache ==
  \/ cacheEntry = <<>>
  \/ cacheEntry = <<Unreadable>>
  \/ cacheEntry[1].fingerprint # CurrentFingerprint
  \/ \E i \in DOMAIN cacheEntry[1].heuristics :
       ~Compiles(cacheEntry[1].heuristics[i].predicate)
  \/ \E d \in DOMAIN DerivedConstraints :
       ~Test(DerivedConstraints[d], cacheEntry[1].value)
  \/ \E i \in DOMAIN cacheEntry[1].heuristics :
       ~Accepts(cacheEntry[1].heuristics[i].predicate, cacheEntry[1].value)

\* C12: a cache file that is absent, unreadable, of another fingerprint, with
\* a heuristic that does not compile or with a value failing the current
\* constraints makes processFile enter a fresh synthesis (derived constraints,
\* no heuristics, attempt 1) with no error raised and nothing delivered from
\* the file; and the result of a synthesis replaces the cache entry, under
\* the current fingerprint.
C12_StaleCacheIsAMiss ==
  /\ [][(pc = "lookup" /\ StaleCache) =>
          /\ pc' = "loop"
          /\ attempt' = 1
          /\ accumulatedConstraints' = DerivedConstraints
          /\ accumulatedHeuristics' = <<>>
          /\ error' = <<>>
          /\ inlined' = <<>>
          /\ cacheEntry' = cacheEntry]_vars
  /\ []((pc = "exit" /\ synthesized # <<>> /\ error = <<>>) =>
          /\ cacheEntry # <<>>
          /\ cacheEntry[1].fingerprint = CurrentFingerprint
          /\ cacheEntry[1].value = synthesized[1].value
          /\ cacheEntry[1].attempts = synthesized[1].attempts
          /\ inlined = <<synthesized[1].value>>)

\* the entry whose odd value failed the constraints was replaced by the
\* result of a synthesis; its heuristic had been compiled and registered
C12_Witness ==
  /\ pc = "exit"
  /\ synthesized # <<>>
  /\ cacheEntry[1].fingerprint = CurrentFingerprint
  /\ cacheEntry[1].value = 102
  /\ cacheEntry[1].attempts # <<>>
  /\ \E e \in predicateRegistryFile : e.predicateSource = SrcShort

(* -------------------- Registry<T> (tooling/lib/registry.ts) ------------- *)

\* writeFileSync calls on the registry file the exploration follows
MaxWrites == 3

\* ids in the order String.prototype.localeCompare gives them
IdOrder == <<"a1", "b2", "c3">>

Position(id) == CHOOSE i \in DOMAIN IdOrder : IdOrder[i] = id

\* a.id.localeCompare(b.id)
localeCompare(a, b) == Position(a) - Position(b)

\* an array: the object it is and the elements it holds. A literal of the
\* caller is an object of its own (refs 1, 2); JSON.parse makes a new one (0)
ArrayValue(ref, items) == [ref |-> ref, items |-> items]

\* a PredicateRegistryEntry
PredicateEntry(id, name) ==
  [id |-> id, name |-> name, description |-> "Value must be positive",
   predicateSource |-> "(value) => value > 0"]

\* a HelperRegistryEntry; inputTypes is a string[]
HelperEntry(id, name, ref) ==
  [id |-> id, name |-> name, description |-> "Clamp to a range",
   category |-> "transformer", source |-> "(x) => Math.min(Math.max(x, 0), 1)",
   signature |-> "(x: number) => number",
   inputTypes |-> ArrayValue(ref, <<"number">>), outputType |-> "number"]

\* the entries handed to register: predicates (one of them with no id) and
\* helpers, two of which differ in nothing but the array object they hold
PredicateInputs ==
  {PredicateEntry("b2", "isPositive"), PredicateEntry("b2", "positive"),
   PredicateEntry("a1", "isPositive"), PredicateEntry("", "isPositive")}

HelperInputs ==
  {HelperEntry("c3", "clamp", 1), HelperEntry("c3", "clamp", 2),
   HelperEntry("c3", "clampUnit", 1), HelperEntry("a1", "clamp", 1)}

EntryInputs == PredicateInputs \cup HelperInputs

\* JSON.stringify of an entry: an array is written as its elements
ToJSON(entry) ==
  IF "inputTypes" \in DOMAIN entry
  THEN [entry EXCEPT !.inputTypes = entry.inputTypes.items]
  ELSE entry

\* JSON.parse of an entry: every array is a new object
FromJSON(json) ==
  IF "inputTypes" \in DOMAIN json
  THEN [json EXCEPT !.inputTypes = ArrayValue(0, json.inputTypes)]
  ELSE json

\* the position of the entry stored under id, 0 when there is none
IndexOfId(es, id) ==
  IF \E i \in DOMAIN es : es[i].id = id
  THEN CHOOSE i \in DOMAIN es : es[i].id = id
  ELSE 0

\* entry[key] !== existing[key]: strings by value, arrays by identity
StrictNotEqual(entry, existing, key) ==
  IF key \notin DOMAIN existing THEN TRUE
  ELSE IF key = "inputTypes" THEN entry[key].ref # existing[key].ref
  ELSE entry[key] # existing[key]

\* Object.keys(entry).some((key) => entry[key] !== existing[key])
changed(entry, existing) ==
  \E key \in DOMAIN entry : StrictNotEqual(entry, existing, key)

\* Registry.register(entry): the entries and the dirty flag it leaves
register(es, dirty, entry) ==
  LET at == IndexOfId(es, entry.id) IN
    IF entry.id = "" THEN [entries |-> es, dirty |-> dirty]
    ELSE IF at = 0 THEN [entries |-> Append(es, entry), dirty |-> TRUE]
    ELSE IF changed(entry, es[at])
      THEN [entries |-> [es EXCEPT ![at] = entry], dirty |-> TRUE]
    ELSE [entries |-> es, dirty |-> dirty]

\* Array.prototype.sort with (a, b) => a.id.localeCompare(b.id)
RECURSIVE InsertById(_, _)
InsertById(sorted, entry) ==
  IF sorted = <<>> THEN <<entry>>
  ELSE IF localeCompare(entry.id, Head(sorted).id) < 0 THEN <<entry>> \o sorted
  ELSE <<Head(sorted)>> \o InsertById(Tail(sorted), entry)

RECURSIVE SortById(_)
SortById(es) ==
  IF es = <<>> THEN <<>>
  ELSE InsertById(SortById(SubSeq(es, 1, Len(es) - 1)), es[Len(es)])

\* what persist writes at registryPath, with the entries in insertion order
persistedContentUnsorted(es) == [i \in DOMAIN es |-> ToJSON(es[i])]

\* what persist writes at registryPath: JSON.stringify of the sorted entries
persistedContent(es) == [i \in DOMAIN SortById(es) |-> ToJSON(SortById(es)[i])]

\* indexGenerator(entries): one line per entry, in the order of Object.keys
indexGenerator(es) == [i \in DOMAIN es |-> es[i].id]

\* Registry.load(): {} when the file is absent, else the parsed entries
\* that have an id
load(file) ==
  IF file = <<>> THEN <<>>
  ELSE LET kept == SelectSeq(file[1], LAMBDA json : json.id # "")
       IN [i \in DOMAIN kept |-> FromJSON(kept[i])]

\* a Registry<T> holds entries of one type T
OfOneType(es, entry) == \A i \in DOMAIN es : DOMAIN es[i] = DOMAIN entry

InitRegistry ==
  /\ NoSynthesis
  /\ EmptyAuditLog
  /\ SeededPredicateRegistry
  /\ NewCacheManager
  /\ NewRegistry
  /\ registration = <<>>
  /\ NoCall

\* registry.register(entry)
Register(entry) ==
  /\ OfOneType(regEntries, entry)
  /\ regEntries' = register(regEntries, regDirty, entry).entries
  /\ regDirty' = register(regEntries, regDirty, entry).dirty
  /\ UNCHANGED <<synthesis, functionCall, registry, auditLog, discoveries, manager, regFile,
                 regIndexFile, regWrites, registration>>

\* registry.persist()
Persist ==
  /\ regDirty => regWrites < MaxWrites
  /\ IF ~regDirty
     THEN UNCHANGED <<regFile, regIndexFile, regDirty, regWrites>>
     ELSE /\ regFile' = <<persistedContent(regEntries)>>
          /\ regIndexFile' = <<indexGenerator(regEntries)>>
          /\ regDirty' = FALSE
          /\ regWrites' = regWrites + 1
  /\ UNCHANGED <<synthesis, functionCall, registry, auditLog, discoveries, manager, regEntries,
                 registration>>

\* clear() emptying the entries and leaving the dirty flag as it was
RegistryClearUnflagged ==
  /\ regEntries' = <<>>
  /\ UNCHANGED <<synthesis, functionCall, registry, auditLog, discoveries, manager, regFile,
                 regIndexFile, regWrites, registration, regDirty>>

\* registry.clear()
RegistryClear ==
  /\ regEntries' = <<>>
  /\ regDirty' = TRUE
  /\ UNCHANGED <<synthesis, functionCall, registry, auditLog, discoveries, manager, regFile,
                 regIndexFile, regWrites, registration>>

\* new Registry(registryPath, indexPath, indexGenerator) over the files the
\* last one left
NewRegistryFromFile ==
  /\ regEntries' = load(regFile)
  /\ regDirty' = FALSE
  /\ UNCHANGED <<synthesis, functionCall, registry, auditLog, discoveries, manager, regFile,
                 regIndexFile, regWrites, registration>>

NextRegistry ==
  \/ \E entry \in EntryInputs : Register(entry)
  \/ Persist
  \/ RegistryClear
  \/ NewRegistryFromFile

SpecRegistry == InitRegistry /\ [][NextRegistry]_vars

\* the entries as JSON.stringify writes them, in the order held
Written(es) == [i \in DOMAIN es |-> ToJSON(es[i])]

\* C18: Registry.register inserts the entry when its id is absent and marks
\* the registry dirty; when the id is present and a field differs it
\* replaces the stored entry with the new one and marks the registry dirty;
\* when the id is present with identical fields it changes nothing and
\* leaves the dirty flag as it was.
C18_RegisterInsertsReplacesOrIgnores ==
  [][\A entry \in EntryInputs :
       (Register(entry) /\ entry.id # "") =>
         LET at == IndexOfId(regEntries, entry.id) IN
           IF at = 0
           THEN regEntries' = Append(regEntries, entry) /\ regDirty'
           ELSE IF ToJSON(entry) # ToJSON(regEntries[at])
             THEN regEntries' = [regEntries EXCEPT ![at] = entry] /\ regDirty'
           ELSE /\ Written(regEntries') = Written(regEntries)
                /\ regDirty' = regDirty]_vars

\* the entries of a set, in the one order that ascends by id
Canonical(S) ==
  CHOOSE s \in [1..Cardinality(S) -> S] :
    /\ Range(s) = S
    /\ \A i, j \in DOMAIN s : i < j => localeCompare(s[i].id, s[j].id) < 0

\* C19: persist writes nothing unless the registry is dirty; when dirty it
\* writes all entries in ascending id order, a content fixed by the set of
\* entries whatever order they were registered in, and clears the dirty
\* flag, so that a second persist writes nothing; and a registry constructed
\* over the persisted file holds exactly the persisted entries.
C19_PersistIsIdempotentAndSorted ==
  /\ [][Persist =>
          IF regDirty
          THEN /\ regFile' = <<Canonical(Range(Written(regEntries)))>>
               /\ regWrites' = regWrites + 1
               /\ ~regDirty'
          ELSE UNCHANGED <<regFile, regIndexFile, regWrites, regDirty>>]_vars
  /\ [][(NewRegistryFromFile /\ regFile # <<>>) =>
          /\ Range(Written(regEntries')) = Range(regFile[1])
          /\ Len(regEntries') = Len(regFile[1])
          /\ ~regDirty']_vars

\* b2 was registered before a1, the file holds a1 before b2, one write was
\* made and the registry is clean
C19_Witness ==
  /\ Len(regEntries) = 2
  /\ regEntries[1].id = "b2"
  /\ regEntries[2].id = "a1"
  /\ regFile = <<<<ToJSON(regEntries[2]), ToJSON(regEntries[1])>>>>
  /\ regWrites = 1
  /\ ~regDirty

(* ------------- the predicate registry of decohere-build.ts -------------- *)

\* constraints handed to registerConstraintPredicate: two sources, one of
\* them under two names, and a constraint without source
ConstraintInputs ==
  {[name |-> "exceeds100", description |-> "Value must exceed 100",
    predicateSource |-> SrcShort],
   [name |-> "greaterThan100", description |-> "Value must be > 100",
    predicateSource |-> SrcShort],
   [name |-> "Even", description |-> "Value must be even", predicateSource |-> SrcEven],
   [name |-> "isEven", description |-> "Check if even", predicateSource |-> SrcEven],
   [name |-> "opaque", description |-> "No predicate", predicateSource |-> ""]}

\* the calls of registerSingleLinePredicate: name, description, expression
SingleLineInputs ==
  {[name |-> "pred1", description |-> "Predicate 1", expression |-> "x > 100"],
   [name |-> "pred2", description |-> "Predicate 2", expression |-> "x > 100"],
   [name |-> "isEven", description |-> "Check if even", expression |-> "x % 2 === 0"],
   [name |-> "even", description |-> "Even number", expression |-> "x % 2 === 0"],
   [name |-> "invalid", description |-> "Invalid predicate", expression |-> "x && y"]}

\* compileSingleLinePredicate(expression) returns a function
compileSingleLinePredicate(expression) == expression \in {"x > 100", "x % 2 === 0"}

\* expression.replace(/\bx\b/g, "value")
ReplaceX(expression) ==
  CASE expression = "x > 100" -> "value > 100"
    [] expression = "x % 2 === 0" -> "value % 2 === 0"
    [] expression = "x && y" -> "value && y"

\* the template literal of registerSingleLinePredicate
SingleLineSource(expression) == "(value) => {\n  " \o ReplaceX(expression) \o "\n}"

\* registerSingleLinePredicate: the entry is written only when the id is absent
registerSingleLinePredicate(reg, name, description, expression) ==
  IF ~compileSingleLinePredicate(expression) THEN reg
  ELSE IF \E e \in reg : e.id = hashText(SingleLineSource(expression)) THEN reg
  ELSE reg \cup {RegistryEntry(name, description, SingleLineSource(expression))}

\* what a registration call was given and the id it returned, if any
Registration(name, description, id) ==
  <<[name |-> name, description |-> description, id |-> id]>>

\* the registry was loaded from a file that held the seeds, or seeded anew
InitPredicates ==
  /\ NoSynthesis
  /\ EmptyAuditLog
  /\ NewCacheManager
  /\ NewRegistry
  /\ registration = <<>>
  /\ NoCall
  /\ predicateRegistry = builtInPredicateSeeds
  /\ \/ predicateRegistryDirty = TRUE /\ predicateRegistryFile = {}
     \/ predicateRegistryDirty = FALSE /\ predicateRegistryFile = builtInPredicateSeeds

\* registerConstraintPredicate(constraint)
RegisterConstraintPredicate(constraint) ==
  /\ predicateRegistry' = registerConstraintPredicate(predicateRegistry, constraint)
  /\ predicateRegistryDirty' = (predicateRegistryDirty \/ predicateRegistry' # predicateRegistry)
  /\ registration' =
       Registration(constraint.name, constraint.description,
                    IF constraint.predicateSource = "" THEN <<>>
                    ELSE <<hashText(constraint.predicateSource)>>)
  /\ UNCHANGED <<synthesis, functionCall, auditLog, discoveries, manager, registryObject,
                 predicateRegistryFile>>

\* registerSingleLinePredicate(name, description, expression)
RegisterSingleLinePredicate(name, description, expression) ==
  /\ predicateRegistry' =
       registerSingleLinePredicate(predicateRegistry, name, description, expression)
  /\ predicateRegistryDirty' = (predicateRegistryDirty \/ predicateRegistry' # predicateRegistry)
  /\ registration' =
       Registration(name, description,
                    IF compileSingleLinePredicate(expression)
                    THEN <<hashText(SingleLineSource(expression))>> ELSE <<>>)
  /\ UNCHANGED <<synthesis, functionCall, auditLog, discoveries, manager, registryObject,
                 predicateRegistryFile>>

\* persistPredicateRegistry()
PersistPredicateRegistry ==
  /\ IF predicateRegistryDirty
     THEN predicateRegistryFile' = predicateRegistry /\ predicateRegistryDirty' = FALSE
     ELSE UNCHANGED <<predicateRegistryFile, predicateRegistryDirty>>
  /\ UNCHANGED <<synthesis, auditLog, libraries, predicateRegistry>>

NextPredicates ==
  \/ \E constraint \in ConstraintInputs : RegisterConstraintPredicate(constraint)
  \/ \E call \in SingleLineInputs :
       RegisterSingleLinePredicate(call.name, call.description, call.expression)
  \/ PersistPredicateRegistry

SpecPredicates == InitPredicates /\ [][NextPredicates]_vars

\* C20: after a registration that returned an id, whatever was registered
\* under that source before and under whatever names, the registry holds
\* exactly one entry for the id (the hash of the source), and that entry
\* carries the name and description given to this most recent registration.
C20_OneEntryPerSourceWithLatestNames ==
  (registration # <<>> /\ registration[1].id # <<>>) =>
    /\ Cardinality({e \in predicateRegistry : e.id = registration[1].id[1]}) = 1
    /\ \A e \in predicateRegistry :
         e.id = registration[1].id[1] =>
           /\ e.name = registration[1].name
           /\ e.description = registration[1].description
           /\ e.id = hashText(e.predicateSource)

(* --------------------- merging constraint sets ------------------------- *)

\* constraints of three names, two of the names under two contents
MergeConstraints ==
  {greaterThan_100, isEvenNumber,
   Constraint("greaterThan_100", "Value must exceed 100", SrcShort, "heuristic"),
   Constraint("isOdd", "Value must be odd", SrcOdd, "heuristic"),
   Constraint("isOdd", "Value must be truthy", SrcDefault, "heuristic")}

MaxMergeLen == 2

\* the lists handed to mergeConstraintSets, repeated names included
ConstraintLists ==
  UNION {[1..n -> MergeConstraints] : n \in 0..MaxMergeLen}

\* the library state with no function called yet
InitFunctions ==
  /\ NoSynthesis
  /\ EmptyAuditLog
  /\ SeededPredicateRegistry
  /\ NewCacheManager
  /\ NewRegistry
  /\ registration = <<>>
  /\ NoCall

\* mergeConstraintSets(existing, additions): processFile merges the derived
\* constraints with the cached heuristics' and synthesizeValue merges each
\* attempt's heuristic constraints into the accumulated set
MergeConstraintSets(existing, additions) ==
  /\ invoked' = <<[fn |-> "mergeConstraintSets", existing |-> existing,
                   additions |-> additions]>>
  /\ returned' = <<mergeConstraintSets(existing, additions)>>
  /\ UNCHANGED <<synthesis, registry, auditLog, discoveries, manager, registryObject,
                 registration>>

NextMerge ==
  \E existing \in ConstraintLists \cup (IF returned = <<>> THEN {} ELSE {returned[1]}),
     additions \in ConstraintLists :
    MergeConstraintSets(existing, additions)

SpecMerge == InitFunctions /\ [][NextMerge]_vars

NamesOf(constraints) == {constraints[i].name : i \in DOMAIN constraints}

\* the last constraint of the name in the list
LastOfName(constraints, name) ==
  constraints[CHOOSE i \in DOMAIN constraints :
                /\ constraints[i].name = name
                /\ \A j \in DOMAIN constraints : constraints[j].name = name => j <= i]

\* C21: mergeConstraintSets(existing, additions) holds one constraint per
\* name occurring in either list and no other; for a name occurring in
\* additions it is the last constraint of that name in additions, else the
\* last of that name in existing; so the names of the accumulated set, which
\* every attempt obtains by such a merge, are unique.
C21_MergeIsLastWriterWinsByName ==
  invoked # <<>> =>
    LET existing == invoked[1].existing
        additions == invoked[1].additions
        merged == returned[1]
    IN  /\ NamesOf(merged) = NamesOf(existing) \cup NamesOf(additions)
        /\ \A i, j \in DOMAIN merged : merged[i].name = merged[j].name => i = j
        /\ \A i \in DOMAIN merged :
             merged[i] = IF merged[i].name \in NamesOf(additions)
                         THEN LastOfName(additions, merged[i].name)
                         ELSE LastOfName(existing, merged[i].name)

\* an accumulated set was merged with additions that name isOdd twice and
\* replace greaterThan_100
C21_Witness ==
  /\ invoked # <<>>
  /\ Len(invoked[1].existing) = 3
  /\ Len(invoked[1].additions) = 2
  /\ invoked[1].additions[1].name = "isOdd"
  /\ invoked[1].additions[2].name = "isOdd"
  /\ invoked[1].additions[1] # invoked[1].additions[2]
  /\ invoked[1].existing[1] = greaterThan_100
  /\ Len(returned[1]) = 3

(* ------------------ IEEE-754 double arithmetic -------------------------- *)

\* A positive double is a record [m, e]: m the 53 bits of its significand,
\* most significant first, and e the exponent of the last bit, so that its
\* value is m * 2^e. Every operation rounds to nearest, ties to even.

Zeros(n) == [i \in 1..n |-> 0]

Reverse(s) == [i \in 1..Len(s) |-> s[Len(s) + 1 - i]]

\* bits + 1, for bits that are not all 1
Increment(bits) ==
  LET k == CHOOSE i \in DOMAIN bits :
             bits[i] = 0 /\ \A j \in DOMAIN bits : j > i => bits[j] = 1
  IN  [i \in DOMAIN bits |-> IF i < k THEN bits[i] ELSE IF i = k THEN 1 ELSE 0]

\* the double nearest to bits * 2^e (plus a nonzero remainder below the last
\* bit when sticky), bits starting with a 1
Round53(bits, e, sticky) ==
  IF Len(bits) <= 53
  THEN [m |-> bits \o Zeros(53 - Len(bits)), e |-> e - (53 - Len(bits))]
  ELSE LET head == SubSeq(bits, 1, 53)
           rest == sticky \/ \E i \in 55..Len(bits) : bits[i] = 1
           up == bits[54] = 1 /\ (rest \/ head[53] = 1)
           e2 == e + Len(bits) - 53
       IN  IF ~up THEN [m |-> head, e |-> e2]
           ELSE IF \A i \in DOMAIN head : head[i] = 1
             THEN [m |-> <<1>> \o Zeros(52), e |-> e2 + 1]
           ELSE [m |-> Increment(head), e |-> e2]

StripZeros(bits) ==
  IF \A i \in DOMAIN bits : bits[i] = 0 THEN <<>>
  ELSE SubSeq(bits, CHOOSE i \in DOMAIN bits :
                      bits[i] = 1 /\ \A j \in 1..(i - 1) : bits[j] = 0, Len(bits))

\* Whole numbers too wide for one machine integer are lists of digits in base
\* 1024, least significant first.

\* the bits of a digit list, most significant first
ToBits(digits) ==
  StripZeros([k \in 1..(10 * Len(digits)) |->
    LET i == 10 * Len(digits) - k
    IN  (digits[(i \div 10) + 1] \div (2 ^ (i % 10))) % 2])

BitAt(bits, i) == IF i <= Len(bits) THEN bits[Len(bits) + 1 - i] ELSE 0

\* the digit list of bits given most significant first
ToDigits(bits) ==
  [j \in 1..((Len(bits) + 9) \div 10) |->
    LET b == 10 * (j - 1)
    IN  BitAt(bits, b + 1) + 2 * BitAt(bits, b + 2) + 4 * BitAt(bits, b + 3)
        + 8 * BitAt(bits, b + 4) + 16 * BitAt(bits, b + 5)
        + 32 * BitAt(bits, b + 6) + 64 * BitAt(bits, b + 7)
        + 128 * BitAt(bits, b + 8) + 256 * BitAt(bits, b + 9)
        + 512 * BitAt(bits, b + 10)]

\* the first k base-1024 digits of the fraction r / d, r < d, most
\* significant first, and the remainder
RECURSIVE FractionDigits(_, _, _)
FractionDigits(r, d, k) ==
  IF k = 0 THEN [digits |-> <<>>, rem |-> r]
  ELSE LET rest == FractionDigits((r * 1024) % d, d, k - 1)
       IN  [digits |-> <<(r * 1024) \div d>> \o rest.digits, rem |-> rest.rem]

\* n / d for integers 0 < n <= d
Quotient(n, d) ==
  LET f == FractionDigits(n % d, d, 7)
  IN  Round53(ToBits(Reverse(<<n \div d>> \o f.digits)), -70, f.rem # 0)

RECURSIVE AddLE(_, _, _)
AddLE(a, b, carry) ==
  IF a = <<>> /\ b = <<>> THEN (IF carry > 0 THEN <<carry>> ELSE <<>>)
  ELSE LET x == IF a = <<>> THEN 0 ELSE Head(a)
           y == IF b = <<>> THEN 0 ELSE Head(b)
       IN  <<(x + y + carry) % 1024>>
             \o AddLE(IF a = <<>> THEN <<>> ELSE Tail(a),
                      IF b = <<>> THEN <<>> ELSE Tail(b),
                      (x + y + carry) \div 1024)

\* a times one digit
RECURSIVE ScaleLE(_, _, _)
ScaleLE(a, digit, carry) ==
  IF a = <<>> THEN (IF carry > 0 THEN <<carry>> ELSE <<>>)
  ELSE <<(Head(a) * digit + carry) % 1024>>
         \o ScaleLE(Tail(a), digit, (Head(a) * digit + carry) \div 1024)

RECURSIVE MulLE(_, _)
MulLE(a, b) ==
  IF b = <<>> THEN <<>>
  ELSE AddLE(ScaleLE(a, Head(b), 0), <<0>> \o MulLE(a, Tail(b)), 0)

\* a - b for a >= b, a at least as long as b
RECURSIVE SubLE(_, _, _)
SubLE(a, b, borrow) ==
  IF a = <<>> THEN <<>>
  ELSE LET y == IF b = <<>> THEN 0 ELSE Head(b)
           digit == Head(a) - y - borrow
       IN  <<digit % 1024>>
             \o SubLE(Tail(a), IF b = <<>> THEN <<>> ELSE Tail(b),
                      IF digit < 0 THEN 1 ELSE 0)

\* x * y
Product(x, y) ==
  Round53(ToBits(MulLE(ToDigits(x.m), ToDigits(y.m))), x.e + y.e, FALSE)

\* 1.0 - x for 0 < x < 1
OneMinus(x) ==
  LET one == Zeros((0 - x.e) \div 10) \o <<2 ^ ((0 - x.e) % 10)>>
  IN  Round53(ToBits(SubLE(one, ToDigits(x.m), 0)), x.e, FALSE)

BitsLessOrEqual(a, b) ==
  a = b \/ \E i \in DOMAIN a : a[i] < b[i] /\ \A j \in 1..(i - 1) : a[j] = b[j]

\* x <= y
LessOrEqual(x, y) == x.e < y.e \/ (x.e = y.e /\ BitsLessOrEqual(x.m, y.m))

\* the literals 1.0, 0.9 and 0.1
DoubleOne == [m |-> <<1>> \o Zeros(52), e |-> -52]
DoubleNineTenths == Quotient(9, 10)
DoubleTenth == Quotient(1, 10)

\* calculateComplexityScore as the double it returns, by the length of the
\* source: 1.0 - (length - 50) / 450 * 0.9 between the two cut-offs
calculateComplexityScoreOfLength(length) ==
  IF length < 50 THEN DoubleOne
  ELSE IF length > 500 THEN DoubleTenth
  ELSE IF length = 50 THEN DoubleOne
  ELSE OneMinus(Product(Quotient(length - 50, 450), DoubleNineTenths))

(* ------------- candidate selection (lib/candidate-selector.ts) ---------- *)

MaxCandidates == 3

\* candidate validators: two of equal score under different names, a
\* single-line pattern, a long source and text that does not compile
SelectorCandidates ==
  {[name |-> "exceeds", description |-> "Value exceeds 100", predicate |-> SrcShort],
   [name |-> "over100", description |-> "Value is over 100", predicate |-> SrcShort],
   [name |-> "greater", description |-> "Greater than 100", predicate |-> SrcSingleGreater],
   [name |-> "notSmall", description |-> "Not one of 1..39", predicate |-> SrcLong],
   [name |-> "invalid", description |-> "Invalid predicate", predicate |-> SrcInvalid]}

SelectorCandidateLists ==
  UNION {[1..n -> SelectorCandidates] : n \in 0..MaxCandidates}

SelectorConstraints == {<<>>, <<greaterThan_100, isEvenNumber>>}

SelectorTestValues == {{}, Values}

\* rankCandidates(candidates, constraints, testValues)
CallRankCandidates(candidates, constraints, testValues) ==
  /\ invoked' = <<[fn |-> "rankCandidates", candidates |-> candidates,
                   constraints |-> constraints, testValues |-> testValues]>>
  /\ returned' = <<rankCandidates(candidates, constraints, testValues)>>
  /\ UNCHANGED <<synthesis, registry, auditLog, discoveries, manager, registryObject,
                 registration>>

\* selectBestCandidate(candidates, constraints, testValues)
CallSelectBestCandidate(candidates, constraints, testValues) ==
  /\ invoked' = <<[fn |-> "selectBestCandidate", candidates |-> candidates,
                   constraints |-> constraints, testValues |-> testValues]>>
  /\ returned' = <<selectBestCandidate(candidates, constraints, testValues)>>
  /\ UNCHANGED <<synthesis, registry, auditLog, discoveries, manager, registryObject,
                 registration>>

\* predicate sources: an arrow function, the single-line patterns, an
\* expression over value, and two texts that do not compile
CoverageSources ==
  {SrcShort, SrcSingleGreater, SrcSingleEven, SrcExpression, SrcInvalid, SrcBroken}

\* calculateCoverageScore(predicateSource, constraints, testValues)
CallCalculateCoverageScore(predicateSource, constraints, testValues) ==
  /\ invoked' = <<[fn |-> "calculateCoverageScore", predicateSource |-> predicateSource,
                   constraints |-> constraints, testValues |-> testValues]>>
  /\ returned' = <<calculateCoverageScore(predicateSource, constraints, testValues)>>
  /\ UNCHANGED <<synthesis, registry, auditLog, discoveries, manager, registryObject,
                 registration>>

NextSelector ==
  \/ \E candidates \in SelectorCandidateLists, constraints \in SelectorConstraints,
        testValues \in SelectorTestValues :
       \/ CallRankCandidates(candidates, constraints, testValues)
       \/ CallSelectBestCandidate(candidates, constraints, testValues)
  \/ \E predicateSource \in CoverageSources, constraints \in SelectorConstraints,
        testValues \in SelectorTestValues :
       CallCalculateCoverageScore(predicateSource, constraints, testValues)

SpecSelector == InitFunctions /\ [][NextSelector]_vars

\* the bijections from the positions of a ranking to those of its input
Bijections(n) ==
  {p \in [1..n -> 1..n] : \A i, j \in 1..n : p[i] = p[j] => i = j}

\* ranked is the scored input reordered, by non-increasing totalScore, with
\* equal scores in input order
IsStableRanking(ranked, candidates, constraints, testValues) ==
  /\ Len(ranked) = Len(candidates)
  /\ \E p \in Bijections(Len(candidates)) :
       /\ \A i \in DOMAIN ranked :
            ranked[i] = scoreCandidate(candidates[p[i]], constraints, testValues)
       /\ \A i, j \in DOMAIN ranked :
            (i < j /\ ranked[i].totalScore = ranked[j].totalScore) => p[i] < p[j]
  /\ \A i, j \in DOMAIN ranked : i < j => ranked[i].totalScore >= ranked[j].totalScore

\* C22: rankCandidates returns a permutation of the scored input candidates
\* in order of non-increasing totalScore, and candidates of equal totalScore
\* keep the relative order they had in the input.
C22_RankingIsStableDescendingPermutation ==
  (invoked # <<>> /\ invoked[1].fn = "rankCandidates") =>
    IsStableRanking(returned[1], invoked[1].candidates, invoked[1].constraints,
                    invoked[1].testValues)

\* two candidates of equal score were ranked behind a later, better one and
\* kept their order
C22_Witness ==
  /\ invoked # <<>>
  /\ invoked[1].fn = "rankCandidates"
  /\ Len(invoked[1].candidates) = 3
  /\ invoked[1].candidates[1].name = "exceeds"
  /\ invoked[1].candidates[2].name = "over100"
  /\ invoked[1].candidates[3].name = "greater"
  /\ returned[1][1].candidate.name = "greater"
  /\ returned[1][2].candidate.name = "exceeds"
  /\ returned[1][3].candidate.name = "over100"
  /\ returned[1][2].totalScore = returned[1][3].totalScore

\* C23: selectBestCandidate throws an Error for an empty candidate list; for
\* a non-empty one it returns the first entry of the ranking, whose
\* totalScore no candidate exceeds, as candidate and the remaining entries
\* as alternatives, so that candidate followed by alternatives is the
\* ranking of the input.
C23_SelectBestIsHeadOfRanking ==
  (invoked # <<>> /\ invoked[1].fn = "selectBestCandidate") =>
    LET candidates == invoked[1].candidates
        ranked == rankCandidates(candidates, invoked[1].constraints,
                                 invoked[1].testValues)
    IN  IF candidates = <<>>
        THEN DOMAIN returned[1] = {"threw"}
        ELSE /\ DOMAIN returned[1] = {"candidate", "alternatives"}
             /\ <<returned[1].candidate>> \o returned[1].alternatives = ranked
             /\ Len(returned[1].alternatives) = Len(candidates) - 1
             /\ \A i \in DOMAIN candidates :
                  scoreCandidate(candidates[i], invoked[1].constraints,
                                 invoked[1].testValues).totalScore
                    <= returned[1].candidate.totalScore

\* the best of three candidates was returned with the other two as
\* alternatives
C23_Witness ==
  /\ invoked # <<>>
  /\ invoked[1].fn = "selectBestCandidate"
  /\ Len(invoked[1].candidates) = 3
  /\ DOMAIN returned[1] = {"candidate", "alternatives"}
  /\ returned[1].candidate.candidate = invoked[1].candidates[3]
  /\ Len(returned[1].alternatives) = 2
  /\ returned[1].candidate.totalScore > returned[1].alternatives[1].totalScore

(* ------------------- the audit log used on its own --------------------- *)

\* the errors and feedback recordValidation is handed with each verdict
ErrorsOf(valid) == IF valid THEN <<>> ELSE <<"Value must be even">>
FeedbackOf(valid) == IF valid THEN "" ELSE "Validation failed"

\* AuditLog.toJSON(): the entries and the audit lists of every key as held;
\* the predicate audits are the values of their map
toJSON ==
  [entries |-> entries,
   predicateAudits |->
     {predicateAudits[id][1] : id \in {i \in PredicateIds : predicateAudits[i] # <<>>}},
   candidateAudits |-> candidateAudits,
   validationAudits |-> validationAudits]

\* auditLog.recordCandidateSelection(typeText, attempt, scores, 0, confidence, reason)
LogCandidateSelection(tt, confidence) ==
  /\ Len(entries) < MaxSelections
  /\ candidateAudits' =
       recordCandidateSelectionAudits(candidateAudits, tt, Len(candidateAudits[tt]) + 1,
                                      OneCandidateScores, 0, confidence)
  /\ entries' = recordCandidateSelectionEntries(entries, tt, Len(candidateAudits[tt]) + 1)
  /\ invoked' = <<[fn |-> "recordCandidateSelection", typeText |-> tt]>>
  /\ returned' = <<>>
  /\ UNCHANGED <<synthesis, registry, registryObject, registration, validationAudits,
                 discoveries, manager>>

\* auditLog.recordValidation(typeText, attempt, valid, errors, feedback)
LogValidation(tt, valid) ==
  /\ Len(entries) < MaxSelections
  /\ validationAudits' =
       recordValidationAudits(validationAudits, tt, Len(validationAudits[tt]) + 1, valid,
                              ErrorsOf(valid), FeedbackOf(valid))
  /\ entries' = recordValidationEntries(entries, tt, Len(validationAudits[tt]) + 1, valid)
  /\ invoked' = <<[fn |-> "recordValidation", typeText |-> tt]>>
  /\ returned' = <<>>
  /\ UNCHANGED <<synthesis, registry, registryObject, registration, candidateAudits,
                 discoveries, manager>>

\* auditLog.clear()
LogClear ==
  /\ entries' = <<>>
  /\ predicateAudits' = [id \in PredicateIds |-> <<>>]
  /\ candidateAudits' = [t \in TypeTexts |-> <<>>]
  /\ validationAudits' = [t \in TypeTexts |-> <<>>]
  /\ invoked' = <<[fn |-> "clear"]>>
  /\ returned' = <<>>
  /\ UNCHANGED <<synthesis, registry, registryObject, registration, clock, manager>>

\* auditLog.toJSON()
LogToJSON ==
  /\ invoked' = <<[fn |-> "toJSON"]>>
  /\ returned' = <<toJSON>>
  /\ UNCHANGED <<synthesis, registry, registryObject, registration, auditLog,
                 discoveries, manager>>

\* auditLog.getSummary()
LogGetSummary ==
  /\ invoked' = <<[fn |-> "getSummary"]>>
  /\ returned' = <<getSummary>>
  /\ UNCHANGED <<synthesis, registry, registryObject, registration, auditLog,
                 discoveries, manager>>

NextAuditLog ==
  \/ \E tt \in TypeTexts, confidence \in SelectionConfidences :
       LogCandidateSelection(tt, confidence)
  \/ \E tt \in TypeTexts, valid \in BOOLEAN : LogValidation(tt, valid)
  \/ LogClear
  \/ LogToJSON
  \/ LogGetSummary

SpecAuditLog == InitFunctions /\ [][NextAuditLog]_vars

\* list a is list b with exactly the elements of tail added at its end
ExtendedBy(a, b, n) == Len(a) = Len(b) + n /\ SubSeq(a, 1, Len(b)) = b

\* C24: recordCandidateSelection and recordValidation add one record at the
\* end of the list of their typeText and one entry at the end of entries,
\* and leave every record made before, in the order made, and every other
\* list as it was; only clear removes records; toJSON returns the entries
\* and the lists of every key as they stand, in recording order, and
\* changes nothing.
C24_AuditLogIsAppendOnly ==
  /\ [][\A tt \in TypeTexts :
          /\ (\E confidence \in SelectionConfidences : LogCandidateSelection(tt, confidence)) =>
               /\ ExtendedBy(entries', entries, 1)
               /\ ExtendedBy(candidateAudits'[tt], candidateAudits[tt], 1)
               /\ \A other \in TypeTexts \ {tt} :
                    candidateAudits'[other] = candidateAudits[other]
               /\ validationAudits' = validationAudits
               /\ entries'[Len(entries')].typeText = tt
          /\ (\E valid \in BOOLEAN : LogValidation(tt, valid)) =>
               /\ ExtendedBy(entries', entries, 1)
               /\ ExtendedBy(validationAudits'[tt], validationAudits[tt], 1)
               /\ \A other \in TypeTexts \ {tt} :
                    validationAudits'[other] = validationAudits[other]
               /\ candidateAudits' = candidateAudits
               /\ entries'[Len(entries')].typeText = tt]_vars
  /\ [][~LogClear =>
          /\ SubSeq(entries', 1, Len(entries)) = entries
          /\ \A tt \in TypeTexts :
               /\ SubSeq(candidateAudits'[tt], 1, Len(candidateAudits[tt]))
                    = candidateAudits[tt]
               /\ SubSeq(validationAudits'[tt], 1, Len(validationAudits[tt]))
                    = validationAudits[tt]]_vars
  /\ [][LogToJSON =>
          /\ returned'[1].entries = entries
          /\ returned'[1].candidateAudits = candidateAudits
          /\ returned'[1].validationAudits = validationAudits
          /\ UNCHANGED auditLog]_vars

\* three records were made for two type texts and exported in that order
C24_Witness ==
  /\ invoked = <<[fn |-> "toJSON"]>>
  /\ Len(returned[1].entries) = 3
  /\ returned[1].entries[1].type = "validation_failed"
  /\ returned[1].entries[1].typeText = "Even"
  /\ returned[1].entries[2].type = "candidate_selected"
  /\ returned[1].entries[2].typeText = MysteryBundle
  /\ returned[1].entries[3].type = "validation_passed"
  /\ returned[1].entries[3].typeText = "Even"
  /\ Len(returned[1].validationAudits["Even"]) = 2
  /\ returned[1].validationAudits["Even"][1].valid = FALSE
  /\ returned[1].validationAudits["Even"][2].valid = TRUE
  /\ Len(returned[1].candidateAudits[MysteryBundle]) = 1

\* the ValidationAudit records held, as (typeText, position) pairs
ValidationRecords ==
  {<<tt, i>> \in TypeTexts \X (1..MaxSelections) : i <= Len(validationAudits[tt])}

\* C25: getSummary reports as totalValidations the number of ValidationAudit
\* records over all type texts and as successRate the number of them with
\* valid = true divided by totalValidations, and successRate 0 when there is
\* no such record, as at the start and after clear.
C25_SummaryCountsAllValidations ==
  (invoked = <<[fn |-> "getSummary"]>>) =>
    LET total == Cardinality(ValidationRecords)
        passed == Cardinality({r \in ValidationRecords :
                                 validationAudits[r[1]][r[2]].valid})
        rate == returned[1].successRate
    IN  /\ returned[1].totalValidations = total
        /\ rate[2] > 0
        /\ IF total = 0 THEN rate[1] = 0
           ELSE rate[1] * total = passed * rate[2]

\* two of three validations, over two type texts, passed
C25_Witness ==
  /\ invoked = <<[fn |-> "getSummary"]>>
  /\ returned[1].totalValidations = 3
  /\ returned[1].successRate = <<2, 3>>
  /\ validationAudits["Even"] # <<>>
  /\ validationAudits[MysteryBundle] # <<>>

(* ------------------- auditing a cache directory ------------------------ *)

MaxFiles == 3

\* files found in a cache directory: two cache entries, an entry without
\* typeText, a file that is not JSON, a file holding null, and a generated
\* heuristics module
DirectoryFiles ==
  {CacheFileOf("Even"), CacheFileOf(MysteryBundle),
   CacheFile("a1b2c3d4e5f6.json", ".json", "entry", ""),
   CacheFile("broken.json", ".json", "not JSON", ""),
   CacheFile("null.json", ".json", "null", ""),
   CacheFile("Even_8c29bf34483d.heuristics.ts", ".ts", "text", "")}

\* what may be at cacheDir: nothing, a regular file, or a directory listing
CacheDirs ==
  {[kind |-> "missing", files |-> <<>>], [kind |-> "file", files |-> <<>>]}
    \cup {[kind |-> "directory", files |-> files] :
            files \in {f \in UNION {[1..n -> DirectoryFiles] : n \in 0..MaxFiles} :
                         \A i, j \in DOMAIN f : f[i] = f[j] => i = j}}

\* cacheManager.auditCacheEntries()
CallAuditCacheEntries(cacheDir) ==
  /\ invoked' = <<[fn |-> "auditCacheEntries", cacheDir |-> cacheDir]>>
  /\ returned' = <<auditCacheEntries(cacheDir)>>
  /\ UNCHANGED <<synthesis, registry, auditLog, discoveries, manager, registryObject,
                 registration>>

NextCacheAudit == \E cacheDir \in CacheDirs : CallAuditCacheEntries(cacheDir)

SpecCacheAudit == InitFunctions /\ [][NextCacheAudit]_vars

\* the positions of the .json files of a listing whose content is an entry
EntryFiles(files) ==
  {i \in DOMAIN files : files[i].extension = ".json" /\ files[i].content = "entry"}

\* C26 (as claimed): auditCacheEntries never raises.
C26_NeverRaises ==
  (invoked # <<>> /\ invoked[1].fn = "auditCacheEntries") => ~returned[1].threw

\* C26 (amended): auditCacheEntries returns an empty result for a missing
\* cache directory; for a directory it does not raise, skips the files not
\* ending in .json, skips with one warning each .json file that cannot be
\* read or parsed and still audits the others, in listing order, and labels
\* an entry without typeText from its file name; it raises when the cache
\* path exists but is no directory.
C26_BadFilesAreSkipped ==
  (invoked # <<>> /\ invoked[1].fn = "auditCacheEntries") =>
    LET cacheDir == invoked[1].cacheDir
        files == cacheDir.files
        audits == returned[1].audits
    IN  /\ cacheDir.kind = "missing" => (~returned[1].threw /\ audits = <<>>)
        /\ cacheDir.kind = "file" => returned[1].threw
        /\ cacheDir.kind = "directory" =>
             /\ ~returned[1].threw
             /\ Len(audits) = Cardinality(EntryFiles(files))
             /\ returned[1].warned =
                  Cardinality({i \in DOMAIN files : files[i].extension = ".json"}
                                \ EntryFiles(files))
             /\ \A i \in EntryFiles(files) :
                  LET k == Cardinality({j \in EntryFiles(files) : j <= i})
                  IN  /\ audits[k].path[3] = files[i].name
                      /\ audits[k].typeText =
                           IF files[i].typeText # "" THEN files[i].typeText
                           ELSE "Type_a1b2c3d4"

\* a listing with a broken file first, then a heuristics module, then an
\* entry without typeText: one warning, one audit, labelled from the name
C26_Witness ==
  /\ invoked # <<>>
  /\ invoked[1].fn = "auditCacheEntries"
  /\ invoked[1].cacheDir.kind = "directory"
  /\ Len(invoked[1].cacheDir.files) = 3
  /\ invoked[1].cacheDir.files[1].name = "broken.json"
  /\ invoked[1].cacheDir.files[2].extension = ".ts"
  /\ invoked[1].cacheDir.files[3].name = "a1b2c3d4e5f6.json"
  /\ returned[1].warned = 1
  /\ Len(returned[1].audits) = 1
  /\ returned[1].audits[1].typeText = "Type_a1b2c3d4"

\* the library's compilePredicate finds no predicate in the source text
FailsToCompile(src) == ~SingleLinePattern(src) /\ ~ParsesAsFunctionBody(src)

\* C27: calculateCoverageScore returns 0.5 when there are no constraints or
\* no sample values, and 0.1 for a candidate whose source fails to compile.
C27_CoverageScoreDefaults ==
  (invoked # <<>> /\ invoked[1].fn = "calculateCoverageScore") =>
    /\ (Len(invoked[1].constraints) = 0 \/ invoked[1].testValues = {})
         => returned[1] = 500
    /\ (/\ Len(invoked[1].constraints) > 0
        /\ invoked[1].testValues # {}
        /\ FailsToCompile(invoked[1].predicateSource))
         => returned[1] = 100

\* the first half of C27 on its own: 0.5 without constraints or sample values
C27_HalfWithoutEvidence ==
  (invoked # <<>> /\ invoked[1].fn = "calculateCoverageScore"
     /\ (Len(invoked[1].constraints) = 0 \/ invoked[1].testValues = {}))
    => returned[1] = 500

(* ------------- complexity score (lib/candidate-selector.ts) ------------- *)

MaxSourceLength == 600

\* a predicate source of any length up to MaxSourceLength is about to be scored
InitComplexity ==
  /\ NoSynthesis
  /\ EmptyAuditLog
  /\ SeededPredicateRegistry
  /\ NewCacheManager
  /\ NewRegistry
  /\ registration = <<>>
  /\ \E length \in 0..MaxSourceLength :
       invoked = <<[fn |-> "calculateComplexityScore", length |-> length]>>
  /\ returned = <<>>

\* calculateComplexityScore(predicateSource)
CalculateComplexityScore ==
  /\ invoked[1].fn = "calculateComplexityScore"
  /\ returned = <<>>
  /\ returned' = <<calculateComplexityScoreOfLength(invoked[1].length)>>
  /\ UNCHANGED <<synthesis, registry, auditLog, discoveries, manager, registryObject,
                 registration, invoked>>

NextComplexity == CalculateComplexityScore

SpecComplexity == InitComplexity /\ [][NextComplexity]_vars

\* C28: the complexity score of a source of any length lies in [0.1, 1.0] and
\* does not increase with the length: a source one character longer never
\* scores higher (so lengths 10, 60 and 600 rank in that order).
C28_ComplexityScoreBoundedAndMonotone ==
  (invoked[1].fn = "calculateComplexityScore" /\ returned # <<>>) =>
    /\ LessOrEqual(DoubleTenth, returned[1])
    /\ LessOrEqual(returned[1], DoubleOne)
    /\ LessOrEqual(calculateComplexityScoreOfLength(invoked[1].length + 1), returned[1])

\* the same for every length but 500, where 1.0 - 450 / 450 * 0.9 rounds to
\* the double below 0.1
C28_BoundedAndMonotoneOffTheCutoff ==
  (invoked[1].fn = "calculateComplexityScore" /\ returned # <<>>
     /\ invoked[1].length # 500) =>
    /\ LessOrEqual(DoubleTenth, returned[1])
    /\ LessOrEqual(returned[1], DoubleOne)
    /\ LessOrEqual(calculateComplexityScoreOfLength(invoked[1].length + 1), returned[1])

(* ------------- cache policy queries (lib/types.ts) ---------------------- *)

\* the cache audits the report of the current state gives the action preserve
ReportPreserves(audit) ==
  ReportAction(audit, candidateAudits, confidenceThreshold) = "preserve"

ReportDoesNotPreserve(audit) == ~ReportPreserves(audit)

Elements(sequence) == {sequence[i] : i \in DOMAIN sequence}

\* C29: for every confidence threshold in [0, 1] and every audit log,
\* getPreservableCacheEntries returns exactly the entries to which
\* generateRegenerationReport gives the action preserve,
\* getCacheEntriesNeedingRegeneration returns exactly the others, and the two
\* results are disjoint and together cover the audited entries.
C29_PolicyOperationsAgree ==
  [][(confidenceThreshold >= 0 /\ confidenceThreshold <= 10000) =>
       /\ GetPreservableCacheEntries =>
            /\ managerResult'[1].preservable = SelectSeq(cacheAudits, ReportPreserves)
            /\ \A i \in DOMAIN cacheAudits :
                 (cacheAudits[i] \in Elements(managerResult'[1].preservable))
                   # (cacheAudits[i] \in
                        Elements(getCacheEntriesNeedingRegeneration(
                                   cacheAudits, candidateAudits, confidenceThreshold)))
       /\ GetCacheEntriesNeedingRegeneration =>
            managerResult'[1].needRegeneration
              = SelectSeq(cacheAudits, ReportDoesNotPreserve)]_vars

\* C30: in every RegenerationReport entriesPreserved +
\* entriesMarkedForRegeneration = totalCacheEntries = entriesChecked = the
\* number of details, highConfidencePreserved <= entriesPreserved,
\* entriesPreserved is the number of details with action preserve and
\* entriesMarkedForRegeneration the number with action regenerate.
C30_ReportCountsAreConsistent ==
  (managerResult # <<>> /\ "details" \in DOMAIN managerResult[1]) =>
    LET report == managerResult[1]
        WithAction(action) ==
          Cardinality({i \in DOMAIN report.details : report.details[i].action = action})
    IN  /\ report.entriesPreserved + report.entriesMarkedForRegeneration
             = report.totalCacheEntries
        /\ report.totalCacheEntries = report.entriesChecked
        /\ report.entriesChecked = Len(report.details)
        /\ report.highConfidencePreserved <= report.entriesPreserved
        /\ report.entriesPreserved = WithAction("preserve")
        /\ report.entriesMarkedForRegeneration = WithAction("regenerate")

(* ------------- the selection audit of a successful synthesis ------------ *)

\* the CandidateSelectionAudit the Cache Manager reads for the bundle:
\* candidateAudits[candidateAudits.length - 1]
LatestAuditOfBundle == LatestCandidate(candidateAudits, typeText)

\* the audit log's record and the candidateSelectionAudit of the cache entry
\* describe the same selection
SameSelection(logged, kept) ==
  /\ logged.attempt = kept.attempt
  /\ logged.selectedIndex = kept.selectedCandidateIndex
  /\ logged.selectedName = kept.selectedCandidateName
  /\ logged.confidence = kept.confidence
  /\ Len(logged.candidateRankings) = Len(kept.candidateScores)
  /\ \A r \in DOMAIN logged.candidateRankings :
       /\ logged.candidateRankings[r].name = kept.candidateScores[r].name
       /\ logged.candidateRankings[r].totalScore = kept.candidateScores[r].totalScore

\* C31: after a successful synthesis the most recent CandidateSelectionAudit
\* of the bundle in the audit log belongs to the successful attempt and
\* equals the candidateSelectionAudit returned with the value and written
\* into the cache entry; it never belongs to an earlier, rejected attempt.
C31_LatestSelectionAuditIsOfTheSuccessfulAttempt ==
  /\ (pc = "returned" /\ LatestAuditOfBundle # <<>>) =>
       /\ LatestAuditOfBundle[1].attempt = attempt
       /\ synthesized[1].candidateSelectionAudit # <<>>
       /\ SameSelection(LatestAuditOfBundle[1], synthesized[1].candidateSelectionAudit[1])
  /\ (cacheEntry # <<>> /\ LatestAuditOfBundle # <<>>) =>
       /\ cacheEntry[1].candidateSelectionAudit # <<>>
       /\ SameSelection(LatestAuditOfBundle[1], cacheEntry[1].candidateSelectionAudit[1])

(* ------------- the cache entry on the next run --------------------------- *)

\* materializeFromCache of the next run over the entry processFile wrote,
\* fingerprint and derived constraints unchanged
NextRunMaterialization ==
  materializeFromCache(cacheEntry, computeTypeFingerprint(typeText, "current"),
                       collectConstraints(typeText))

\* C32: the cache entry processFile writes after a successful synthesis is
\* accepted by materializeFromCache on the next run when the fingerprint and
\* the derived constraints are unchanged: the value that passed the
\* write-time validation passes the read-time validation, a cache hit.
C32_WrittenEntryIsACacheHit ==
  cacheEntry # <<>> =>
    /\ NextRunMaterialization # <<>>
    /\ NextRunMaterialization[1].entry = cacheEntry[1]

(* ------------- when the cache entry is written --------------------------- *)

\* the validation processFile runs on the value synthesizeValue returned
PostSynthesisValidation ==
  validateValue(mergeConstraintSets(collectConstraints(typeText),
                                    SelectSeq(synthesized[1].constraints, IsHeuristic)),
                synthesized[1].value)

\* C33: the cache entry is written only on the synthesis path, after
\* synthesizeValue returned a value that passed validation and the
\* post-synthesis validation passed too; the cached path leaves the entry
\* as it is, and so does every step that ends in an error.
C33_CacheWrittenOnlyAfterValidatedSynthesis ==
  [][/\ cacheEntry' # cacheEntry =>
          /\ pc = "returned"
          /\ synthesized # <<>>
          /\ validation[1].ok
          /\ validateValue(synthesized[1].constraints, synthesized[1].value).ok
          /\ PostSynthesisValidation.ok
          /\ cacheEntry'[1].value = synthesized[1].value
          /\ error = <<>>
     /\ (pc = "lookup" \/ pc' = "thrown") => cacheEntry' = cacheEntry]_vars

\* the run ended after a synthesis whose value was saved and inlined
C33_Witness ==
  /\ pc = "exit"
  /\ synthesized # <<>>
  /\ cacheEntry # <<>>
  /\ cacheEntry[1].attempts # <<>>
  /\ cacheEntry[1].value = synthesized[1].value
  /\ inlined = <<cacheEntry[1].value>>

(* ------------- the validation audits of one synthesis -------------------- *)

\* the last ValidationAudit of the bundle records an accepted value
LastAuditIsValid ==
  /\ ValidationAuditsOfBundle # <<>>
  /\ ValidationAuditsOfBundle[Len(ValidationAuditsOfBundle)].valid

\* attempt numbers start at 1 and increase strictly, and only the last
\* record can be a valid one
WellOrderedAudits(audits) ==
  /\ audits # <<>> => audits[1].attempt = 1
  /\ \A i, j \in DOMAIN audits : i < j => audits[i].attempt < audits[j].attempt
  /\ \A i \in DOMAIN audits : audits[i].valid => i = Len(audits)

\* C34: within one synthesis the ValidationAudit records of the bundle carry
\* strictly increasing attempt numbers starting at 1, at most one per
\* attempt, at most one of them is valid and it is the last one: once it is
\* appended the oracle is called no more and the audit log of the bundle
\* grows no further.
C34_ValidationAuditsAreOrderedAndEndWithTheValidOne ==
  [][/\ WellOrderedAudits(validationAudits'[typeText])
     /\ LastAuditIsValid =>
          /\ llmCalls' = llmCalls
          /\ validationAudits' = validationAudits
          /\ candidateAudits' = candidateAudits
          /\ entries' = entries]_vars

\* a synthesis accepted at its third attempt, after an infeasible answer and
\* a rejected value, has delivered
C34_Witness ==
  /\ pc = "exit"
  /\ inlined # <<>>
  /\ Len(ValidationAuditsOfBundle) = 3
  /\ ValidationAuditsOfBundle[1].errors = <<"Infeasible">>
  /\ ~ValidationAuditsOfBundle[2].valid
  /\ ValidationAuditsOfBundle[3].valid
  /\ llmCalls = 3

(* ------------- the dirty flag of Registry<T> ------------------------------ *)

\* the entries the registry file holds, none when there is no file
EntriesOnFile == IF regFile = <<>> THEN {} ELSE Range(regFile[1])

\* C35: after any sequence of register, clear and persist calls, whenever
\* isDirty() is false the in-memory entries are those last loaded from or
\* persisted to the registry file: no change of the entries is left
\* unflagged.
C35_CleanRegistryMatchesItsFile ==
  ~regDirty =>
    /\ Range(Written(regEntries)) = EntriesOnFile
    /\ Len(regEntries) = Cardinality(EntriesOnFile)

\* register, persist, clear, register, persist: one entry in memory and on
\* file after two writes, and the registry is clean
C35_Witness ==
  /\ ~regDirty
  /\ regWrites = 2
  /\ Len(regEntries) = 1
  /\ regFile = <<Written(regEntries)>>
  /\ regEntries[1].id = "c3"

(* ------------- the confidence recorded for a selection ------------------- *)

\* the CandidateSelectionAudit that the step just recorded for the bundle
RecordedSelection == candidateAudits'[typeText][Len(candidateAudits'[typeText])]

\* the same candidates ranked with no constraints at all
RankedWithoutConstraints ==
  rankCandidates(ResponseCandidates(response[1].candidateValidators), <<>>, {})

\* C36: the confidence recorded for a selection is the totalScore of the
\* top-ranked candidate and lies in [0, 1]; every candidate of the recorded
\* audit has the neutral coverageScore 0.5, so the confidence is
\* 0.3 * complexityScore + 0.2 + 0.3 * reusabilityScore of the selected
\* candidate, whatever the accumulated constraints are.
C36_RecordedConfidenceIgnoresConstraints ==
  [][(RankCandidates /\ Len(response[1].candidateValidators) > 0) =>
       LET audit == RecordedSelection
           top == audit.candidateRankings[1]
       IN  /\ Len(candidateAudits'[typeText]) = Len(candidateAudits[typeText]) + 1
           /\ audit.confidence = top.totalScore
           /\ audit.selectedScore = top.totalScore
           /\ audit.selectedName = top.name
           /\ \A r \in DOMAIN audit.candidateRankings :
                /\ audit.candidateRankings[r].totalScore <= top.totalScore
                /\ audit.candidateRankings[r].coverageScore = 500
           /\ audit.confidence >= 0
           /\ audit.confidence <= 10000
           /\ audit.confidence = 3 * top.complexityScore + 2000 + 3 * top.reusabilityScore
           /\ audit.confidence = RankedWithoutConstraints[1].totalScore
           /\ candidateSelectionAudit'[1].confidence = audit.confidence
           /\ \A r \in DOMAIN candidateSelectionAudit'[1].candidateScores :
                candidateSelectionAudit'[1].candidateScores[r].coverageScore = 500]_vars

\* the second attempt, with a heuristic constraint accumulated in the first,
\* ranked two candidates and put the second of the response first
C36_Witness ==
  /\ pc = "compile"
  /\ attempt = 2
  /\ Len(accumulatedConstraints) = 3
  /\ Len(response[1].candidateValidators) = 2
  /\ CandidateAuditsOfBundle # <<>>
  /\ CandidateAuditsOfBundle[Len(CandidateAuditsOfBundle)].attempt = 2
  /\ CandidateAuditsOfBundle[Len(CandidateAuditsOfBundle)].selectedName = "candidate_2"
  /\ CandidateAuditsOfBundle[Len(CandidateAuditsOfBundle)].confidence = 7100

====
